---- MODULE Spec2Model ----
(***************************************************************************)
(* Model of the reply bot: the example store and its similarity index,    *)
(* the bounded conversation memory, analytics, the reply cache, the        *)
(* staged reply pipeline (src/src/graph.py) and the mood classifier.       *)
(*                                                                         *)
(* Text is a sequence of Unicode code points (Python str), so that         *)
(* lower(), strip(), startswith and the substring test `kw in text` are    *)
(* computed as Python computes them.                                       *)
(***************************************************************************)
EXTENDS Integers, Sequences, FiniteSets, TLC

VARIABLES
  trainingFile,        \* data/training_data.json (the persisted Example Store)
  examples,            \* PersonalReplyBot.examples
  vector_store,        \* VectorStoreManager.vector_store
  vectorDisk,          \* data/vector_store (the persisted index)
  max_turns,           \* ConversationMemory.max_turns
  conversations,       \* ConversationMemory.conversations
  conversationsFile,   \* data/conversations.json
  facts,               \* LongTermMemory.facts
  memoryFile,          \* data/long_term_memory.json
  analytics,           \* Analytics.data
  analyticsFile,       \* data/analytics.json
  pending_corrections, \* LearningSystem.pending_corrections
  cache,               \* PersonalReplyBot._cache
  personality,         \* graph.personality_manager.current_personality
  botPersonality,      \* bot.personality_manager.current_personality
  clock,               \* number of datetime.now() readings so far
  req,                 \* the request in the pipeline: position and BotState
  result,              \* outcome of the last completed call
  hist,                \* history of the calls made (not program state)
  mdText,              \* argument of MoodDetector.detect
  mdResult,            \* <<MoodResult>> once detect has returned, <<>> before
  ldText,              \* argument of LanguageDetector.detect
  ldResult,            \* <<code>> once detect has returned, <<>> before
  inbox,               \* server.py: the HTTP requests received, by user
  pending_searches,    \* server.py: the search awaiting permission, by user
  rate_limits,         \* SecurityManager: instants of the admitted calls, by identifier
  rate_limit_config    \* SecurityManager: RateLimit(requests, window_seconds)

(***************************************************************************)
(* Bounds of the model                                                     *)
(***************************************************************************)
\* largest count of a mood in the analytics documents get_stats is given
MaxCount == 2

\* number of pieces concatenated into an input text of the classifier
MaxPieces == 3

\* number of calls of the public API in one run
MaxCalls == 3

\* number of calls of ConversationMemory in one run
MaxMsgs == 5

\* clock readings per calendar day
TicksPerDay == 4

\* number of calls of Analytics.track_message in one run
MaxTracks == 5

\* number of calls of LongTermMemory.add_fact in one run
MaxFacts == 12

\* importable modules of the repository (src/ is the package root)
Modules ==
  {"config", "src.bot", "src.graph", "src.memory", "src.security",
   "src.analytics", "src.core.chain", "src.core.mood", "src.tools.manager",
   "src.tools.filesystem", "src.tools.scraper", "src.integrations.webhooks"}

\* whether `from <name> import ...` finds the module
ModuleExists(name) == name \in Modules

(***************************************************************************)
(* str helpers                                                             *)
(***************************************************************************)
\* str.lower() on the alphabet of the model (ASCII letters and emoji)
LowerChar(c) == IF c >= 65 /\ c <= 90 THEN c + 32 ELSE c

Lower(s) == [i \in 1..Len(s) |-> LowerChar(s[i])]

\* needle in hay (Python substring test)
Contains(hay, needle) ==
  \E i \in 0..(Len(hay) - Len(needle)) :
     \A j \in 1..Len(needle) : hay[i + j] = needle[j]

\* hay.startswith(prefix)
StartsWith(hay, prefix) ==
  /\ Len(prefix) <= Len(hay)
  /\ \A j \in 1..Len(prefix) : hay[j] = prefix[j]

IsSpace(c) == c \in {32, 9, 10, 13}

\* str.strip()
Strip(s) ==
  LET keep == {i \in 1..Len(s) : ~IsSpace(s[i])}
  IN  IF keep = {} THEN <<>>
      ELSE LET lo == CHOOSE i \in keep : \A k \in keep : i <= k
               hi == CHOOSE i \in keep : \A k \in keep : i >= k
           IN  SubSeq(s, lo, hi)

RECURSIVE Concat(_)
Concat(ss) == IF ss = <<>> THEN <<>> ELSE Head(ss) \o Concat(Tail(ss))

\* all sequences over S of length at most n
SeqsUpTo(S, n) == UNION {[1..k -> S] : k \in 0..n}

(***************************************************************************)
(* config.py                                                               *)
(***************************************************************************)
\* config.MOODS, in declaration order; every keyword as code points
MOODS ==
  << [mood |-> "happy", keywords |-> <<
        <<128522>>,   \* U+1F60A
        <<128516>>,   \* U+1F604
        <<127881>>,   \* U+1F389
        <<97, 119, 101, 115, 111, 109, 101>>,   \* "awesome"
        <<103, 114, 101, 97, 116>>,   \* "great"
        <<108, 111, 118, 101>>   \* "love"
     >>],
     [mood |-> "sad", keywords |-> <<
        <<128546>>,   \* U+1F622
        <<128148>>,   \* U+1F494
        <<117, 112, 115, 101, 116>>,   \* "upset"
        <<109, 105, 115, 115>>,   \* "miss"
        <<108, 111, 110, 101, 108, 121>>,   \* "lonely"
        <<115, 97, 100>>   \* "sad"
     >>],
     [mood |-> "angry", keywords |-> <<
        <<128544>>,   \* U+1F620
        <<129324>>,   \* U+1F92C
        <<109, 97, 100>>,   \* "mad"
        <<97, 110, 110, 111, 121, 101, 100>>,   \* "annoyed"
        <<102, 114, 117, 115, 116, 114, 97, 116, 101, 100>>   \* "frustrated"
     >>],
     [mood |-> "excited", keywords |-> <<
        <<127881>>,   \* U+1F389
        <<128640>>,   \* U+1F680
        <<99, 97, 110, 39, 116, 32, 119, 97, 105, 116>>,   \* "can't wait"
        <<101, 120, 99, 105, 116, 101, 100>>,   \* "excited"
        <<97, 109, 97, 122, 105, 110, 103>>   \* "amazing"
     >>],
     [mood |-> "tired", keywords |-> <<
        <<128564>>,   \* U+1F634
        <<101, 120, 104, 97, 117, 115, 116, 101, 100>>,   \* "exhausted"
        <<115, 108, 101, 101, 112, 121>>,   \* "sleepy"
        <<116, 105, 114, 101, 100>>,   \* "tired"
        <<100, 114, 97, 105, 110, 101, 100>>   \* "drained"
     >>],
     [mood |-> "neutral", keywords |-> <<
        <<111, 107, 97, 121>>,   \* "okay"
        <<102, 105, 110, 101>>,   \* "fine"
        <<97, 108, 114, 105, 103, 104, 116>>,   \* "alright"
        <<110, 111, 114, 109, 97, 108>>   \* "normal"
     >>] >>

MAX_RESULTS == 3

\* RATE_LIMIT_REQUESTS and RATE_LIMIT_WINDOW when the environment sets neither
DefaultRateLimit == [requests |-> 60, window_seconds |-> 60]

\* faulty variant of MAX_CONVERSATION_TURNS: an odd default capacity, one
\* message short of five exchanges
MAX_CONVERSATION_TURNS_ODD == 2 * 5 - 1

MAX_CONVERSATION_TURNS == 10

(***************************************************************************)
(* src/src/core/mood.py : MoodDetector                                     *)
(***************************************************************************)
\* MoodDetector.emoji_pattern: the character class of the regular expression
InEmojiPattern(c) ==
  \/ (c >= 128512 /\ c <= 128591)     \* U+1F600-U+1F64F emoticons
  \/ (c >= 127744 /\ c <= 128511)     \* U+1F300-U+1F5FF symbols & pictographs
  \/ (c >= 128640 /\ c <= 128767)     \* U+1F680-U+1F6FF transport & map
  \/ (c >= 127462 /\ c <= 127487)     \* U+1F1E0-U+1F1FF flags

\* MoodDetector.mood_emoji_map: the keys exactly as the string literals of the
\* source file decode (each key is a string of two or four code points)
mood_emoji_map ==
  { [key |-> <<240, 376, 732, 352>>, mood |-> "happy"],
    [key |-> <<240, 376, 732, 8222>>, mood |-> "happy"],
    [key |-> <<240, 376, 381, 8240>>, mood |-> "happy"],
    [key |-> <<226, 164, 239, 184>>, mood |-> "happy"],
    [key |-> <<240, 376, 732, 162>>, mood |-> "sad"],
    [key |-> <<240, 376, 8217, 8221>>, mood |-> "sad"],
    [key |-> <<240, 376, 732, 173>>, mood |-> "sad"],
    [key |-> <<240, 376, 732, 382>>, mood |-> "sad"],
    [key |-> <<240, 376, 732, 160>>, mood |-> "angry"],
    [key |-> <<240, 376, 164, 172>>, mood |-> "angry"],
    [key |-> <<240, 376, 732, 164>>, mood |-> "angry"],
    [key |-> <<240, 376, 353, 8364>>, mood |-> "excited"],
    [key |-> <<240, 376, 381, 352>>, mood |-> "excited"],
    [key |-> <<226, 173>>, mood |-> "excited"],
    [key |-> <<240, 376, 732, 180>>, mood |-> "tired"],
    [key |-> <<240, 376, 8217, 164>>, mood |-> "tired"],
    [key |-> <<240, 376, 165, 177>>, mood |-> "tired"] }
\* config.FALLBACK_RESPONSES
FALLBACK_RESPONSES ==
  << <<73, 39, 109, 32, 110, 111, 116, 32, 115, 117, 114, 101, 32, 104, 111, 119, 32, 116, 111, 32, 114, 101, 115, 112, 111, 110, 100, 32, 116, 111, 32, 116, 104, 97, 116, 46>>,   \* "I'm not sure how to respond to that."
     <<67, 111, 117, 108, 100, 32, 121, 111, 117, 32, 114, 101, 112, 104, 114, 97, 115, 101, 32, 116, 104, 97, 116, 63>>,   \* "Could you rephrase that?"
     <<73, 32, 110, 101, 101, 100, 32, 109, 111, 114, 101, 32, 101, 120, 97, 109, 112, 108, 101, 115, 32, 116, 111, 32, 108, 101, 97, 114, 110, 32, 102, 114, 111, 109, 46>> >>   \* "I need more examples to learn from."

\* PersonalReplyBot.file_prefixes
file_prefixes ==
  { <<108, 115>>,   \* "ls"
    <<108, 105, 115, 116>>,   \* "list"
    <<99, 100, 32>>,   \* "cd "
    <<112, 119, 100>>,   \* "pwd"
    <<102, 105, 110, 100, 32>>,   \* "find "
    <<115, 101, 97, 114, 99, 104, 32>>,   \* "search "
    <<103, 114, 101, 112, 32>>,   \* "grep "
    <<114, 101, 97, 100, 32>>,   \* "read "
    <<99, 97, 116, 32>>,   \* "cat "
    <<97, 110, 97, 108, 121, 122, 101, 32>>,   \* "analyze "
    <<114, 117, 110, 32>>,   \* "run "
    <<115, 104, 101, 108, 108, 32>>,   \* "shell "
    <<100, 114, 105, 118, 101, 115>>,   \* "drives"
    <<100, 101, 115, 107, 116, 111, 112>>,   \* "desktop"
    <<100, 111, 99, 117, 109, 101, 110, 116, 115>>,   \* "documents"
    <<100, 111, 119, 110, 108, 111, 97, 100, 115>>,   \* "downloads"
    <<104, 111, 109, 101>> }   \* "home"

\* file_keywords of PersonalReplyBot.is_file_command
file_keywords ==
  { <<108, 105, 115, 116, 32, 102, 105, 108, 101, 115>>,   \* "list files"
    <<115, 104, 111, 119, 32, 102, 105, 108, 101, 115>>,   \* "show files"
    <<102, 105, 108, 101, 115, 32, 105, 110>>,   \* "files in"
    <<102, 111, 108, 100, 101, 114>>,   \* "folder"
    <<103, 111, 32, 116, 111>>,   \* "go to"
    <<102, 105, 110, 100, 32, 102, 105, 108, 101>>,   \* "find file"
    <<115, 101, 97, 114, 99, 104, 32, 102, 111, 114>>,   \* "search for"
    <<108, 111, 111, 107, 32, 102, 111, 114>>,   \* "look for"
    <<119, 104, 97, 116, 39, 115, 32, 105, 110>>,   \* "what's in"
    <<99, 111, 110, 116, 101, 110, 116, 115, 32, 111, 102>>,   \* "contents of"
    <<110, 97, 118, 105, 103, 97, 116, 101>> }   \* "navigate"

\* broad_search_keywords of PersonalReplyBot.needs_full_access
broad_search_keywords ==
  { <<102, 105, 110, 100>>,   \* "find"
    <<115, 101, 97, 114, 99, 104>>,   \* "search"
    <<108, 111, 111, 107, 32, 102, 111, 114>>,   \* "look for"
    <<119, 104, 101, 114, 101, 32, 105, 115>>,   \* "where is"
    <<108, 111, 99, 97, 116, 101>>,   \* "locate"
    <<115, 101, 97, 114, 99, 104, 32, 97, 108, 108>>,   \* "search all"
    <<115, 101, 97, 114, 99, 104, 32, 101, 118, 101, 114, 121, 119, 104, 101, 114, 101>>,   \* "search everywhere"
    <<101, 110, 116, 105, 114, 101>>,   \* "entire"
    <<102, 117, 108, 108>>,   \* "full"
    <<101, 118, 101, 114, 121, 32, 102, 111, 108, 100, 101, 114>>,   \* "every folder"
    <<101, 118, 101, 114, 121, 32, 102, 105, 108, 101>>,   \* "every file"
    <<97, 108, 108, 32, 102, 111, 108, 100, 101, 114, 115>>,   \* "all folders"
    <<97, 108, 108, 32, 102, 105, 108, 101, 115>> }   \* "all files"

\* specific_locations of PersonalReplyBot.needs_full_access
specific_locations ==
  { <<100, 111, 119, 110, 108, 111, 97, 100, 115>>,   \* "downloads"
    <<100, 101, 115, 107, 116, 111, 112>>,   \* "desktop"
    <<100, 111, 99, 117, 109, 101, 110, 116, 115>>,   \* "documents"
    <<102, 111, 108, 100, 101, 114>>,   \* "folder"
    <<100, 105, 114, 101, 99, 116, 111, 114, 121>> }   \* "directory"

\* the confirmation words of PersonalReplyBot.get_reply
permission_words ==
  { <<121, 101, 115>>,   \* "yes"
    <<121, 101, 97, 104>>,   \* "yeah"
    <<115, 117, 114, 101>>,   \* "sure"
    <<100, 111, 32, 105, 116>>,   \* "do it"
    <<103, 111, 32, 97, 104, 101, 97, 100>>,   \* "go ahead"
    <<112, 108, 101, 97, 115, 101, 32, 100, 111>> }   \* "please do"

\* the permission prompt returned by PersonalReplyBot.get_reply
PermissionPrompt ==
  <<128269, 32, 84, 104, 105, 115, 32, 114, 101, 113, 117, 105, 114, 101, 115, 32, 97, 32, 102, 117, 108, 108, 32, 115, 121, 115, 116, 101, 109, 32, 115, 101, 97, 114, 99, 104, 46, 32, 87, 111, 117, 108, 100, 32, 121, 111, 117, 32, 108, 105, 107, 101, 32, 109, 101, 32, 116, 111, 32, 115, 101, 97, 114, 99, 104, 32, 97, 108, 108, 32, 102, 111, 108, 100, 101, 114, 115, 32, 111, 110, 32, 121, 111, 117, 114, 32, 99, 111, 109, 112, 117, 116, 101, 114, 63, 32, 40, 84, 104, 105, 115, 32, 109, 97, 121, 32, 116, 97, 107, 101, 32, 97, 32, 109, 111, 109, 101, 110, 116, 41>>

\* the acknowledgement returned by LearningSystem.add_correction
CorrectionAck ==
  <<84, 104, 97, 110, 107, 115, 33, 32, 73, 39, 118, 101, 32, 108, 101, 97, 114, 110, 101, 100, 32, 102, 114, 111, 109, 32, 121, 111, 117, 114, 32, 99, 111, 114, 114, 101, 99, 116, 105, 111, 110, 46>>


\* `char in self.mood_emoji_map` for one character of the text
EmojiMapHas(c) == \E e \in mood_emoji_map : e.key = <<c>>

EmojiMapGet(c) == (CHOOSE e \in mood_emoji_map : e.key = <<c>>).mood

\* number of keywords of MOODS[m] that occur in text_lower
MoodScore(text_lower, m) ==
  Cardinality({j \in 1..Len(MOODS[m].keywords) :
                  Contains(text_lower, MOODS[m].keywords[j])})

\* faulty variant of detect: the test `max(mood_scores.values()) == 0` is
\* left out, so a text without keywords gets the first mood of the table
detect_without_zero_test(text) ==
  LET text_lower == Lower(text)
      hits == {i \in 1..Len(text) : InEmojiPattern(text[i]) /\ EmojiMapHas(text[i])}
      mood_scores == [m \in 1..Len(MOODS) |-> MoodScore(text_lower, m)]
      best == CHOOSE s \in {mood_scores[m] : m \in 1..Len(MOODS)} :
                 \A m \in 1..Len(MOODS) : mood_scores[m] <= s
      first == CHOOSE m \in 1..Len(MOODS) :
                 /\ mood_scores[m] = best
                 /\ \A k \in 1..(m - 1) : mood_scores[k] < best
  IN  IF hits # {}
      THEN LET i == CHOOSE h \in hits : \A k \in hits : h <= k
           IN  [mood |-> EmojiMapGet(text[i]), confidence |-> 90, intensity |-> 30]
      ELSE [mood |-> MOODS[first].mood,
            confidence |-> IF 50 + 15 * best < 95 THEN 50 + 15 * best ELSE 95,
            intensity |-> IF 10 * best < 30 THEN 10 * best ELSE 30]

\* faulty variant of detect: among the moods with the highest score the one
\* declared last is returned
detect_last_maximum(text) ==
  LET text_lower == Lower(text)
      hits == {i \in 1..Len(text) : InEmojiPattern(text[i]) /\ EmojiMapHas(text[i])}
      mood_scores == [m \in 1..Len(MOODS) |-> MoodScore(text_lower, m)]
      best == CHOOSE s \in {mood_scores[m] : m \in 1..Len(MOODS)} :
                 \A m \in 1..Len(MOODS) : mood_scores[m] <= s
      last == CHOOSE m \in 1..Len(MOODS) :
                 /\ mood_scores[m] = best
                 /\ \A k \in (m + 1)..Len(MOODS) : mood_scores[k] < best
  IN  IF hits # {}
      THEN LET i == CHOOSE h \in hits : \A k \in hits : h <= k
           IN  [mood |-> EmojiMapGet(text[i]), confidence |-> 90, intensity |-> 30]
      ELSE IF best = 0
      THEN [mood |-> "neutral", confidence |-> 50, intensity |-> 9]
      ELSE [mood |-> MOODS[last].mood,
            confidence |-> IF 50 + 15 * best < 95 THEN 50 + 15 * best ELSE 95,
            intensity |-> IF 10 * best < 30 THEN 10 * best ELSE 30]

\* faulty variant of detect: confidence and intensity without their caps
detect_without_caps(text) ==
  LET text_lower == Lower(text)
      hits == {i \in 1..Len(text) : InEmojiPattern(text[i]) /\ EmojiMapHas(text[i])}
      mood_scores == [m \in 1..Len(MOODS) |-> MoodScore(text_lower, m)]
      best == CHOOSE s \in {mood_scores[m] : m \in 1..Len(MOODS)} :
                 \A m \in 1..Len(MOODS) : mood_scores[m] <= s
      first == CHOOSE m \in 1..Len(MOODS) :
                 /\ mood_scores[m] = best
                 /\ \A k \in 1..(m - 1) : mood_scores[k] < best
  IN  IF hits # {}
      THEN LET i == CHOOSE h \in hits : \A k \in hits : h <= k
           IN  [mood |-> EmojiMapGet(text[i]), confidence |-> 90, intensity |-> 30]
      ELSE IF best = 0
      THEN [mood |-> "neutral", confidence |-> 50, intensity |-> 9]
      ELSE [mood |-> MOODS[first].mood,
            confidence |-> 50 + 15 * best,
            intensity |-> 10 * best]

\* MoodDetector.detect; confidence in hundredths, intensity in thirtieths
detect(text) ==
  LET text_lower == Lower(text)
      \* positions matched by emoji_pattern.findall, left to right, whose
      \* character is a key of mood_emoji_map
      hits == {i \in 1..Len(text) : InEmojiPattern(text[i]) /\ EmojiMapHas(text[i])}
      mood_scores == [m \in 1..Len(MOODS) |-> MoodScore(text_lower, m)]
      best == CHOOSE s \in {mood_scores[m] : m \in 1..Len(MOODS)} :
                 \A m \in 1..Len(MOODS) : mood_scores[m] <= s
      \* max(mood_scores, key=mood_scores.get): first key with the maximum
      first == CHOOSE m \in 1..Len(MOODS) :
                 /\ mood_scores[m] = best
                 /\ \A k \in 1..(m - 1) : mood_scores[k] < best
  IN  IF hits # {}
      THEN LET i == CHOOSE h \in hits : \A k \in hits : h <= k
           IN  [mood |-> EmojiMapGet(text[i]), confidence |-> 90, intensity |-> 30]
      ELSE IF best = 0
      THEN [mood |-> "neutral", confidence |-> 50, intensity |-> 9]
      ELSE [mood |-> MOODS[first].mood,
            confidence |-> IF 50 + 15 * best < 95 THEN 50 + 15 * best ELSE 95,
            intensity |-> IF 10 * best < 30 THEN 10 * best ELSE 30]

\* MoodDetector.get_response_modifier
get_response_modifier(mood) ==
  CASE mood.mood = "happy"   -> "Match the user's happy energy!"
    [] mood.mood = "sad"     -> "Be gentle and supportive. The user might need comfort."
    [] mood.mood = "angry"   -> "Stay calm and understanding. Don't take it personally."
    [] mood.mood = "excited" -> "Match the excitement! Be energetic!"
    [] mood.mood = "tired"   -> "Be understanding and keep responses brief."
    [] OTHER                 -> ""

(***************************************************************************)
(* Inputs of the classifier: texts built from a few pieces                 *)
(***************************************************************************)
MoodPieces ==
  { <<128522>>,                 \* U+1F60A smiling face
    <<128546>>,                 \* U+1F622 crying face
    <<129324>>,                 \* U+1F92C face with symbols on mouth
    <<115, 97, 100>>,           \* "sad"
    <<103, 114, 101, 97, 116>>, \* "great"
    <<76, 111, 118, 101>>,      \* "Love"
    <<109, 97, 100>>,           \* "mad"
    <<32, 120, 32>>,            \* " x "
    <<128512>>,                 \* U+1F600 grinning face (no keyword, no table entry)
    <<97, 119, 101, 115, 111, 109, 101, 127881>> }   \* "awesome" + U+1F389

MoodTexts == {Concat(ps) : ps \in SeqsUpTo(MoodPieces, MaxPieces)}


(***************************************************************************)
(* src/src/core/mood.py : LanguageDetector, PersonalityManager             *)
(***************************************************************************)
\* faulty variant of language_patterns: the ranges in code-point order
language_patterns_by_code_point ==
  << [code |-> "hi", lo |-> 2304, hi |-> 2431],
     [code |-> "ta", lo |-> 2944, hi |-> 3071],
     [code |-> "te", lo |-> 3072, hi |-> 3199],
     [code |-> "ml", lo |-> 3328, hi |-> 3455] >>

\* LanguageDetector.language_patterns, in declaration order
language_patterns ==
  << [code |-> "hi", lo |-> 2304, hi |-> 2431],    \* U+0900-U+097F
     [code |-> "te", lo |-> 3072, hi |-> 3199],    \* U+0C00-U+0C7F
     [code |-> "ta", lo |-> 2944, hi |-> 3071],    \* U+0B80-U+0BFF
     [code |-> "ml", lo |-> 3328, hi |-> 3455] >>  \* U+0D00-U+0D7F

\* pattern.search(text) for entry p of language_patterns
PatternSearch(p, text) ==
  \E i \in 1..Len(text) :
     text[i] >= language_patterns[p].lo /\ text[i] <= language_patterns[p].hi

\* LanguageDetector.detect
detect_language(text) ==
  LET found == {p \in 1..Len(language_patterns) : PatternSearch(p, text)}
  IN  IF found = {} THEN "en"
      ELSE language_patterns[CHOOSE p \in found : \A q \in found : p <= q].code

\* characters of the texts handed to LanguageDetector.detect
LanguageChars ==
  { 97,       \* "a"
    2344,     \* U+0928 Devanagari
    2304,     \* U+0900 first of the Devanagari range
    2431,     \* U+097F last of the Devanagari range
    2432,     \* U+0980 Bengali, in no range
    3077,     \* U+0C05 Telugu
    2949,     \* U+0B85 Tamil
    3333,     \* U+0D05 Malayalam
    3456 }    \* U+0D80 Sinhala, in no range

LanguageTexts == SeqsUpTo(LanguageChars, MaxPieces)

\* keys of config.PERSONALITIES
PERSONALITIES ==
  {"default", "friendly", "professional", "sarcastic", "motivational"}

\* faulty variant of set_personality: any key is accepted
set_personality_any_key(current, personality_key) == <<personality_key, TRUE>>

\* PersonalityManager.set_personality: <<new current_personality, returned flag>>
set_personality(current, personality_key) ==
  IF personality_key \in PERSONALITIES
  THEN <<personality_key, TRUE>>
  ELSE <<current, FALSE>>

(***************************************************************************)
(* src/src/core/chain.py : Example Store and Similarity Index              *)
(***************************************************************************)
TrainingExample(i, r, l) == [input |-> i, reply |-> r, language |-> l]

\* data/training_data.json missing
NoTrainingFile == [exists |-> FALSE, language |-> "en", examples |-> <<>>]

\* load_training_data(): every example gets the language of the document
load_training_data(file) ==
  IF ~file.exists THEN <<>>
  ELSE [i \in 1..Len(file.examples) |->
          TrainingExample(file.examples[i].input, file.examples[i].reply,
                          file.language)]

\* save_training_data(examples, language): the document written
save_training_data(exs, language) ==
  [exists   |-> TRUE,
   language |-> language,
   examples |-> [i \in 1..Len(exs) |->
                   [input |-> exs[i].input, reply |-> exs[i].reply]]]

\* VectorStoreManager.vector_store is None / no index.faiss on disk
NoVectorStore == [exists |-> FALSE, docs |-> <<>>]

\* Document(page_content, metadata) built by create_vector_store / add_example
Document(ex, idx) ==
  [page_content |-> ex.input, reply |-> ex.reply,
   language |-> ex.language, index |-> idx]

\* VectorStoreManager.create_vector_store: the index built (and saved)
create_vector_store(exs) ==
  [exists |-> TRUE, docs |-> [i \in 1..Len(exs) |-> Document(exs[i], i - 1)]]

\* faulty variant of add_example: an absent index is left absent
add_example_skips_absent(vs, ex) ==
  IF ~vs.exists
  THEN vs
  ELSE [exists |-> TRUE, docs |-> Append(vs.docs, Document(ex, 0))]

\* VectorStoreManager.add_example: the index afterwards (and saved)
add_example(vs, ex) ==
  IF ~vs.exists
  THEN create_vector_store(<<ex>>)
  ELSE [exists |-> TRUE, docs |-> Append(vs.docs, Document(ex, 0))]

\* VectorStoreManager._init_vector_store: FAISS.load_local of the saved index
load_vector_store(disk) == disk

\* injective sequences of length m over 1..n: the possible rankings
Rankings(n, m) ==
  {p \in [1..m -> 1..n] : \A i, j \in 1..m : i # j => p[i] # p[j]}

\* faulty variant of similarity_search: an absent index answers with one
\* empty document
similarity_search_placeholder(vs, k) ==
  IF ~vs.exists THEN {<<Document(TrainingExample(<<>>, <<>>, "en"), 0)>>}
  ELSE LET n == Len(vs.docs)
           m == IF k < n THEN k ELSE n
       IN  {[i \in 1..m |-> vs.docs[p[i]]] : p \in Rankings(n, m)}

\* faulty variant of similarity_search: every entry of the index is returned
similarity_search_unbounded(vs, k) ==
  IF ~vs.exists THEN {<<>>}
  ELSE LET n == Len(vs.docs)
       IN  {[i \in 1..n |-> vs.docs[p[i]]] : p \in Rankings(n, n)}

\* VectorStoreManager.similarity_search: the lists FAISS may return for some
\* embedding of the query: min(k, n) distinct entries of the index, ranked
similarity_search(vs, k) ==
  IF ~vs.exists THEN {<<>>}
  ELSE LET n == Len(vs.docs)
           m == IF k < n THEN k ELSE n
       IN  {[i \in 1..m |-> vs.docs[p[i]]] : p \in Rankings(n, m)}

(***************************************************************************)
(* src/src/memory.py                                                       *)
(***************************************************************************)
Message(role, content, timestamp, mood, language) ==
  [role |-> role, content |-> content, timestamp |-> timestamp,
   mood |-> mood, language |-> language]

\* ConversationMemory.__init__: max_turns or config.MAX_CONVERSATION_TURNS
\* (the argument None is written 0)
InitMaxTurns(arg) == IF arg = 0 THEN MAX_CONVERSATION_TURNS ELSE arg

\* faulty variant of DequeAppend: a deque without maxlen
DequeAppendUnbounded(q, x, maxlen) == Append(q, x)

\* deque(maxlen).append
DequeAppend(q, x, maxlen) ==
  LET a == Append(q, x)
  IN  IF Len(a) > maxlen THEN SubSeq(a, Len(a) - maxlen + 1, Len(a)) ELSE a

\* ConversationMemory.get_context
get_context(convs, user_id) ==
  IF user_id \in DOMAIN convs THEN convs[user_id] ELSE <<>>

\* faulty variant of add_message: the dict is replaced by one holding only
\* the conversation of user_id
add_message_forgets_others(convs, maxlen, user_id, msg) ==
  [u \in {user_id} |-> DequeAppend(get_context(convs, user_id), msg, maxlen)]

\* ConversationMemory.add_message: the conversations dict afterwards
add_message(convs, maxlen, user_id, msg) ==
  [u \in DOMAIN convs \cup {user_id} |->
     IF u = user_id
     THEN DequeAppend(get_context(convs, user_id), msg, maxlen)
     ELSE convs[u]]

\* faulty variant of clear_conversation: every conversation is emptied
clear_conversation_all(convs, user_id) ==
  [u \in DOMAIN convs |-> <<>>]

\* ConversationMemory.clear_conversation: the conversations dict afterwards
clear_conversation(convs, user_id) ==
  [u \in DOMAIN convs |-> IF u = user_id THEN <<>> ELSE convs[u]]

\* one line of get_formatted_context
ContextLine(msg) ==
  (IF msg.role = "user" THEN <<85, 115, 101, 114, 58, 32>>     \* "User: "
                        ELSE <<66, 111, 116, 58, 32>>)         \* "Bot: "
  \o msg.content

\* sep.join(parts)
RECURSIVE Join(_, _)
Join(sep, parts) ==
  IF parts = <<>> THEN <<>>
  ELSE IF Len(parts) = 1 THEN parts[1]
  ELSE parts[1] \o sep \o Join(sep, Tail(parts))

\* ConversationMemory.get_formatted_context
get_formatted_context(convs, user_id) ==
  LET messages == get_context(convs, user_id)
  IN  Join(<<10>>, [i \in 1..Len(messages) |-> ContextLine(messages[i])])

\* the last n elements of a list: s[-n:]
LastN(s, n) == IF Len(s) <= n THEN s ELSE SubSeq(s, Len(s) - n + 1, Len(s))

\* LongTermMemory.add_fact: the facts list afterwards
add_fact(fs, user_id, fact, timestamp) ==
  Append(fs, [user_id |-> user_id, fact |-> fact, category |-> "general",
              timestamp |-> timestamp])

\* SelectSeq with a captured user id
RECURSIVE FactsOf(_, _)
FactsOf(fs, user_id) ==
  IF fs = <<>> THEN <<>>
  ELSE (IF Head(fs).user_id = user_id THEN <<Head(fs).fact>> ELSE <<>>)
       \o FactsOf(Tail(fs), user_id)

\* faulty variant of get_facts: the first ten facts of the user
get_facts_first_ten(fs, user_id) ==
  LET user_facts == FactsOf(fs, user_id)
  IN  IF Len(user_facts) <= 10 THEN user_facts ELSE SubSeq(user_facts, 1, 10)

\* LongTermMemory.get_facts
get_facts(fs, user_id) == LastN(FactsOf(fs, user_id), 10)

\* LongTermMemory.get_formatted_memory
get_formatted_memory(fs, user_id) ==
  LET mine == get_facts(fs, user_id)
  IN  IF mine = <<>> THEN <<>>
      ELSE <<84, 104, 105, 110, 103, 115, 32, 73, 32, 114, 101, 109, 101,
             109, 98, 101, 114, 32, 97, 98, 111, 117, 116, 32, 121, 111,
             117, 58, 32>>                 \* "Things I remember about you: "
           \o Join(<<59, 32>>, mine)       \* "; "

(***************************************************************************)
(* src/src/analytics/__init__.py : Analytics                               *)
(***************************************************************************)
\* Analytics.__init__: self.data
EmptyAnalytics ==
  [total_messages |-> 0, conversations |-> 0,
   messages_by_user |-> <<>>, messages_by_mood |-> <<>>,
   messages_by_language |-> <<>>, daily_stats |-> <<>>,
   corrections |-> <<>>, feedback |-> <<>>]

\* d[key] += 1 on a defaultdict(int)
Incr(d, key) ==
  [x \in DOMAIN d \cup {key} |->
     IF x = key THEN (IF key \in DOMAIN d THEN d[key] ELSE 0) + 1 ELSE d[x]]

\* faulty variant of track_message: the language counter is left out
track_message_no_language(data, user_id, mood, language, today) ==
  [data EXCEPT
     !.total_messages = @ + 1,
     !.messages_by_user = Incr(@, user_id),
     !.daily_stats = Incr(@, today),
     !.messages_by_mood = IF mood \notin {"None", ""} THEN Incr(@, mood) ELSE @]

\* faulty variant of track_message: the counter of the user is assigned 1
\* instead of incremented
track_message_user_assigned(data, user_id, mood, language, today) ==
  [data EXCEPT
     !.total_messages = @ + 1,
     !.messages_by_user = [x \in DOMAIN @ \cup {user_id} |->
                             IF x = user_id THEN 1 ELSE @[x]],
     !.daily_stats = Incr(@, today),
     !.messages_by_mood = IF mood \notin {"None", ""} THEN Incr(@, mood) ELSE @,
     !.messages_by_language =
        IF language \notin {"None", ""} THEN Incr(@, language) ELSE @]

\* Analytics.track_message: self.data afterwards; None and "" are falsy
track_message(data, user_id, mood, language, today) ==
  [data EXCEPT
     !.total_messages = @ + 1,
     !.messages_by_user = Incr(@, user_id),
     !.daily_stats = Incr(@, today),
     !.messages_by_mood = IF mood \notin {"None", ""} THEN Incr(@, mood) ELSE @,
     !.messages_by_language =
        IF language \notin {"None", ""} THEN Incr(@, language) ELSE @]

\* faulty variant of top_five: the first five items, not sorted
top_five_unsorted(d, keys) ==
  [i \in 1..(IF Len(keys) < 5 THEN Len(keys) ELSE 5) |-> <<keys[i], d[keys[i]]>>]

\* sorted(d.items(), key=lambda x: x[1], reverse=True)[:5] as the list of
\* its <<key, count>> pairs; keys lists the keys of d in insertion order, the
\* order of d.items(). The sort is stable: of two keys with the same count
\* the one inserted first comes first.
top_five(d, keys) ==
  LET n == Len(keys)
      pos(k) == CHOOSE i \in 1..n : keys[i] = k
      before(j, k) == d[j] > d[k] \/ (d[j] = d[k] /\ pos(j) < pos(k))
      rank(k) == Cardinality({j \in DOMAIN d : before(j, k)})
      sorted == [i \in 1..n |-> CHOOSE k \in DOMAIN d : rank(k) = i - 1]
  IN  [i \in 1..(IF n < 5 THEN n ELSE 5) |-> <<sorted[i], d[sorted[i]]>>]

\* Analytics.get_stats: the fields that are counts (top_moods and
\* top_languages are top_five of the two dicts)
get_stats(data) ==
  [total_messages |-> data.total_messages,
   unique_users |-> Cardinality(DOMAIN data.messages_by_user),
   recent_corrections_count |-> Len(data.corrections)]

\* Analytics.track_correction: self.data afterwards
track_correction(data, user_id, original_reply, corrected_reply, timestamp) ==
  [data EXCEPT !.corrections =
     Append(@, [user_id |-> user_id, original |-> original_reply,
                corrected |-> corrected_reply, timestamp |-> timestamp])]

\* Analytics.track_feedback: self.data afterwards
track_feedback(data, user_id, reply, feedback_type, timestamp) ==
  [data EXCEPT !.feedback =
     Append(@, [user_id |-> user_id, reply |-> reply, type |-> feedback_type,
                timestamp |-> timestamp])]

\* faulty variant of analytics_save: the first hundred records are kept
analytics_save_first_hundred(data) ==
  [exists |-> TRUE,
   data |-> [data EXCEPT
               !.corrections = IF Len(@) <= 100 THEN @ ELSE SubSeq(@, 1, 100),
               !.feedback = IF Len(@) <= 100 THEN @ ELSE SubSeq(@, 1, 100)]]

\* Analytics._save: the document written
analytics_save(data) ==
  [exists |-> TRUE,
   data |-> [data EXCEPT !.corrections = LastN(@, 100),
                         !.feedback = LastN(@, 100)]]

(***************************************************************************)
(* src/src/bot.py : routing of PersonalReplyBot.get_reply                  *)
(***************************************************************************)
\* PersonalReplyBot.needs_full_access
needs_full_access(message) ==
  LET msg == Strip(Lower(message))
      is_search == \E kw \in broad_search_keywords : Contains(msg, kw)
      has_location == \E loc \in specific_locations : Contains(msg, loc)
  IN  is_search /\ ~has_location

\* PersonalReplyBot.is_file_command
is_file_command(message) ==
  LET msg == Strip(Lower(message))
  IN  \/ \E p \in file_prefixes : StartsWith(msg, p)
      \/ \E kw \in file_keywords : Contains(msg, kw)

\* hasattr(self, '_pending_search') and self._pending_search: the attribute
\* is assigned nowhere in the repository
has_pending_search == FALSE

\* the text of a user id of the model
UserIdText(user_id) ==
  IF user_id = "u1" THEN <<117, 49>>
  ELSE IF user_id = "u2" THEN <<117, 50>>
  ELSE <<>>

\* faulty variant of CacheKey: the message as it was sent
CacheKeyCaseSensitive(user_id, msg) == UserIdText(user_id) \o <<58>> \o msg

\* cache_key = f"{user_id}:{msg.lower()}"
CacheKey(user_id, msg) == UserIdText(user_id) \o <<58>> \o Lower(msg)

\* ToolManager.format_result(ToolManager.execute(msg)): the tool layer is
\* outside this model, its output is one opaque text
ToolOutput == <<60, 116, 111, 111, 108, 32, 111, 117, 116, 112, 117, 116, 62>>

(***************************************************************************)
(* Inputs                                                                  *)
(***************************************************************************)
Users == {"u1", "u2"}

\* messages sent to get_reply
Messages ==
  { <<104, 105>>,                   \* "hi"
    <<32, 72, 105, 32>>,            \* " Hi "
    <<115, 97, 100, 32, 2344>>,     \* "sad" + space + U+0928 (Devanagari)
    <<108, 115>>,                   \* "ls"
    <<102, 105, 110, 100, 32, 120>> }  \* "find x"

\* the get_reply calls <<message, user_id>>: the first user sends any of the
\* messages, the second user one of them
Requests ==
  (Messages \X {"u1"}) \cup { << <<104, 105>>, "u2" >> }

TextX == <<88>>           \* "X"
TextY == <<89>>           \* "Y"
TextFoo == <<102, 111, 111>>   \* "foo"
TextBar == <<98, 97, 114>>     \* "bar"

\* arguments of train: <<input_text, reply, language>>
TrainArgs == { <<TextX, TextBar, "en">>, <<TextY, TextFoo, "hi">> }

\* users who send corrections
CorrectUsers == {"u1"}

\* texts the language model may return
LLMReplies == { <<114, 49>> }     \* "r1"

PersonalityKeys == {"friendly", "nosuch"}

FactTexts == { <<116, 101, 97>> }     \* "tea"

\* users who store facts
FactUsers == {"u1"}

\* the Example Store documents found on disk at start-up
InitialTrainingFiles ==
  { NoTrainingFile,
    save_training_data(<<TrainingExample(TextX, TextFoo, "en")>>, "en"),
    save_training_data(<<TrainingExample(TextX, TextFoo, "hi"),
                         TrainingExample(TextY, TextBar, "hi")>>, "hi") }

(***************************************************************************)
(* Request record of the pipeline (BotState of src/src/graph.py)           *)
(***************************************************************************)
\* initial_state of AdvancedReplyGraph.get_reply
InitialBotState(query, user_id) ==
  [user_id |-> user_id, query |-> query, language |-> "en", mood |-> "None",
   mood_confidence |-> 0, similar_docs |-> <<>>, similar_examples |-> <<>>,
   conversation_context |-> <<>>, long_term_memory |-> <<>>,
   system_prompt |-> "", mood_modifier |-> "", reply |-> <<>>,
   is_fallback |-> FALSE]

\* the stores a request may write, as they are when it starts
Snapshot(convs, an, ch) == [conversations |-> convs, analytics |-> an, cache |-> ch]

NoSnapshot == Snapshot(<<>>, EmptyAnalytics, <<>>)

IdleReq ==
  [pc |-> "idle", state |-> InitialBotState(<<>>, ""), cache_key |-> <<>>,
   trace |-> <<>>, search_calls |-> 0, llm_calls |-> 0, pre |-> NoSnapshot]

\* the outcome of the last completed call of the public API
NoResult ==
  [op |-> "none", status |-> "ok", type |-> "", reply |-> <<>>,
   from_cache |-> FALSE, user_id |-> "", query |-> <<>>, mood |-> "None",
   language |-> "en", is_fallback |-> FALSE, candidates |-> 0,
   trace |-> <<>>, search_calls |-> 0, llm_calls |-> 0, pre |-> NoSnapshot,
   stats |-> <<>>]

\* AdvancedReplyGraph._build_graph: entry point and edges
EntryPoint == "detect_language"

\* faulty variant of GraphEdge: detect_language is wired to get_context
GraphEdgeSkipMood(node) ==
  CASE node = "detect_language" -> "get_context"
    [] node = "detect_mood"     -> "get_context"
    [] node = "get_context"     -> "search"
    [] node = "search"          -> "generate"
    [] node = "generate"        -> "END"

GraphEdge(node) ==
  CASE node = "detect_language" -> "detect_mood"
    [] node = "detect_mood"     -> "get_context"
    [] node = "get_context"     -> "search"
    [] node = "search"          -> "generate"
    [] node = "generate"        -> "END"

\* datetime.now().strftime("%Y-%m-%d") for clock reading t
DayOf(t) == t \div TicksPerDay

(***************************************************************************)
(* State after construction                                                *)
(***************************************************************************)
rateVars == <<rate_limits, rate_limit_config>>

vars ==
  <<trainingFile, examples, vector_store, vectorDisk, max_turns,
    conversations, conversationsFile, facts, memoryFile, analytics,
    analyticsFile, pending_corrections, cache, personality, botPersonality,
    clock, req, result, hist, mdText, mdResult, ldText, ldResult, inbox, pending_searches, rateVars>>

storeVars == <<trainingFile, examples, vector_store, vectorDisk>>
memoryVars == <<max_turns, conversations, conversationsFile>>
factVars == <<facts, memoryFile>>
analyticsVars == <<analytics, analyticsFile>>
personalityVars == <<personality, botPersonality>>
moodVars == <<mdText, mdResult, ldText, ldResult>>

NoFile == [exists |-> FALSE, data |-> <<>>]

\* ghost record: calls made so far (train_calls counts the train calls that
\* returned, train_failures those that raised), what was appended to each
\* conversation, the process starts, the train and correct calls since the
\* last start, whether that start found no persisted index, the facts
\* handed to add_fact, and the replies of the pipeline by <<user id,
\* lower-cased trimmed message>> since the reply cache was last emptied, the
\* searches the chat endpoint stored after a permission prompt, the full
\* searches executed, and the calls check_rate_limit admitted
InitHist(file, disk) ==
  [calls |-> 0, initial_count |-> Len(load_training_data(file)),
   train_calls |-> 0, correct_calls |-> 0,
   appended |-> [u \in Users |-> <<>>], tracked_users |-> {},
   train_failures |-> 0, restarts |-> 0, since_start |-> 0, fact_log |-> <<>>,
   cached |-> <<>>, prompts |-> <<>>, searches |-> <<>>, admitted |-> <<>>,
   started_without_index |-> ~load_vector_store(disk).exists]

\* ConversationMemory._load_conversations: deque(messages, maxlen=max_turns)
load_conversations(file, maxlen) ==
  IF ~file.exists THEN <<>>
  ELSE [u \in DOMAIN file.data |-> LastN(file.data[u], maxlen)]

\* LongTermMemory._load
load_facts(file) == IF file.exists THEN file.data ELSE <<>>

\* Analytics._load
analytics_load(file) == IF file.exists THEN file.data ELSE EmptyAnalytics

\* faulty variant of ConstructVectorStore: the index is only loaded, never
\* rebuilt from the Example Store
ConstructVectorStoreLoadOnly(file, disk) == load_vector_store(disk)

\* AdvancedReplyGraph.__init__ and _init_vector_store: the index after
\* construction, given the documents found on disk
ConstructVectorStore(file, disk) ==
  LET loaded == load_vector_store(disk)
      exs == load_training_data(file)
  IN  IF exs # <<>> /\ ~loaded.exists THEN create_vector_store(exs) ELSE loaded

\* PersonalReplyBot.__init__ with max_turns_arg handed to ConversationMemory
\* (AdvancedReplyGraph hands none: 0), the analytics document and the
\* conversations document found on disk, and SecurityManager() of
\* src/src/security.py with the rate limit the environment sets
ConstructIn(file, disk, max_turns_arg, analytics_file, conversations_file, rate_limit) ==
  /\ trainingFile = file
  /\ examples = load_training_data(file)
  /\ vector_store = ConstructVectorStore(file, disk)
  /\ vectorDisk = ConstructVectorStore(file, disk)
  /\ max_turns = InitMaxTurns(max_turns_arg)
  /\ conversations =
       load_conversations(conversations_file, InitMaxTurns(max_turns_arg))
  /\ conversationsFile = conversations_file
  /\ facts = <<>>
  /\ memoryFile = NoFile
  /\ analytics = analytics_load(analytics_file)
  /\ analyticsFile = analytics_file
  /\ pending_corrections = <<>>
  /\ cache = <<>>
  /\ personality = "default"
  /\ botPersonality = "default"
  /\ clock = 0
  /\ req = IdleReq
  /\ result = NoResult
  /\ hist = InitHist(file, disk)
  /\ inbox = <<>>
  /\ pending_searches = <<>>
  /\ rate_limits = <<>>
  /\ rate_limit_config = rate_limit

\* the construction when the environment sets no rate limit
ConstructOn(file, disk, max_turns_arg, analytics_file, conversations_file) ==
  ConstructIn(file, disk, max_turns_arg, analytics_file, conversations_file,
              DefaultRateLimit)

\* PersonalReplyBot.__init__ on a disk without conversations document
ConstructWith(file, disk, max_turns_arg, analytics_file) ==
  ConstructOn(file, disk, max_turns_arg, analytics_file, NoFile)

\* PersonalReplyBot.__init__ on a disk without analytics document
Construct(file, disk, max_turns_arg) ==
  ConstructWith(file, disk, max_turns_arg, NoFile)

Init ==
  /\ \E file \in InitialTrainingFiles :
       \E disk \in {NoVectorStore, create_vector_store(load_training_data(file))} :
          /\ (disk.exists => file.exists)
          /\ Construct(file, disk, 0)
  /\ mdText = <<>>
  /\ mdResult = <<>>
  /\ ldText = <<>>
  /\ ldResult = <<>>

Idle == req.pc = "idle" /\ hist.calls < MaxCalls

Called(h) == [h EXCEPT !.calls = @ + 1]

(***************************************************************************)
(* src/src/bot.py : train, correct, set_personality, clear, add_memory     *)
(***************************************************************************)
\* PersonalReplyBot.train(input_text, reply, language)
TrainBody(input_text, reply, language) ==
  LET example == TrainingExample(input_text, reply, language)
  IN  /\ req.pc = "idle"
      /\ examples' = Append(examples, example)
      /\ trainingFile' = save_training_data(examples', language)
      /\ \/ /\ vector_store' = add_example(vector_store, example)
            /\ vectorDisk' = vector_store'
            /\ result' = [NoResult EXCEPT !.op = "train"]
            /\ hist' = [Called(hist) EXCEPT !.train_calls = @ + 1,
                                            !.since_start = @ + 1]
         \/ \* the embedding call of add_example fails: train raises after
            \* the Example Store was written
            /\ UNCHANGED <<vector_store, vectorDisk>>
            /\ result' = [NoResult EXCEPT !.op = "train", !.status = "raised"]
            /\ hist' = [Called(hist) EXCEPT !.train_failures = @ + 1,
                                            !.since_start = @ + 1]
      /\ UNCHANGED <<memoryVars, factVars, analyticsVars, pending_corrections,
                     cache, personalityVars, clock, req, moodVars, inbox, pending_searches, rateVars>>

\* a train call while fewer than MaxCalls calls were made
Train(input_text, reply, language) ==
  Idle /\ TrainBody(input_text, reply, language)

\* PersonalReplyBot.correct -> LearningSystem.add_correction
CorrectBody(user_id, query, original_reply, corrected_reply) ==
  /\ req.pc = "idle"
  /\ pending_corrections' =
       Append(pending_corrections,
              [user_id |-> user_id, query |-> query,
               original |-> original_reply, corrected |-> corrected_reply,
               timestamp |-> clock])
  /\ clock' = clock + 1
  /\ IF ModuleExists("src.chain")
     THEN \* load_training_data, append, save_training_data(examples)
          /\ trainingFile' =
               save_training_data(
                 Append(load_training_data(trainingFile),
                        TrainingExample(query, corrected_reply, "en")),
                 "en")
          /\ result' = [NoResult EXCEPT !.op = "correct", !.reply = CorrectionAck]
     ELSE \* the import statement raises ModuleNotFoundError
          /\ trainingFile' = trainingFile
          /\ result' = [NoResult EXCEPT !.op = "correct", !.status = "raised"]
  /\ hist' = [Called(hist) EXCEPT !.correct_calls = @ + 1,
                                  !.since_start = @ + 1]
  /\ UNCHANGED <<examples, vector_store, vectorDisk, memoryVars, factVars,
                 analyticsVars, cache, personalityVars, req, moodVars, inbox, pending_searches, rateVars>>

\* a correct call while fewer than MaxCalls calls were made
Correct(user_id, query, original_reply, corrected_reply) ==
  Idle /\ CorrectBody(user_id, query, original_reply, corrected_reply)

\* faulty variant of SetPersonalityBody: only the selector of the pipeline is
\* set
SetPersonalityPipelineOnly(personality_key) ==
  LET r == set_personality(personality, personality_key)
  IN  /\ req.pc = "idle"
      /\ personality' = r[1]
      /\ botPersonality' = botPersonality
      /\ result' = [NoResult EXCEPT !.op = "set_personality",
                                    !.status = IF r[2] THEN "ok" ELSE "false"]
      /\ hist' = Called(hist)
      /\ UNCHANGED <<storeVars, memoryVars, factVars, analyticsVars,
                     pending_corrections, cache, clock, req, moodVars, inbox, pending_searches, rateVars>>

\* PersonalReplyBot.set_personality
SetPersonalityBody(personality_key) ==
  LET r == set_personality(personality, personality_key)
  IN  /\ req.pc = "idle"
      /\ personality' = r[1]
      /\ botPersonality' =
           IF r[2] THEN set_personality(botPersonality, personality_key)[1]
           ELSE botPersonality
      /\ result' = [NoResult EXCEPT !.op = "set_personality",
                                    !.status = IF r[2] THEN "ok" ELSE "false"]
      /\ hist' = Called(hist)
      /\ UNCHANGED <<storeVars, memoryVars, factVars, analyticsVars,
                     pending_corrections, cache, clock, req, moodVars, inbox, pending_searches, rateVars>>

\* a set_personality call while fewer than MaxCalls calls were made
SetPersonality(personality_key) == Idle /\ SetPersonalityBody(personality_key)

\* PersonalReplyBot.clear_conversation
ClearConversationBody(user_id) ==
  /\ req.pc = "idle"
  /\ IF user_id \in DOMAIN conversations
     THEN /\ conversations' = clear_conversation(conversations, user_id)
          /\ conversationsFile' = [exists |-> TRUE, data |-> conversations']
     ELSE UNCHANGED <<conversations, conversationsFile>>
  /\ cache' = <<>>
  /\ result' = [NoResult EXCEPT !.op = "clear_conversation"]
  /\ hist' = [Called(hist) EXCEPT !.appended[user_id] = <<>>, !.cached = <<>>]
  /\ UNCHANGED <<storeVars, max_turns, factVars, analyticsVars,
                 pending_corrections, personalityVars, clock, req, moodVars, inbox, pending_searches, rateVars>>

\* a clear_conversation call while fewer than MaxCalls calls were made
ClearConversation(user_id) == Idle /\ ClearConversationBody(user_id)

\* PersonalReplyBot.add_memory -> LongTermMemory.add_fact
AddMemory(user_id, fact) ==
  /\ Idle
  /\ facts' = add_fact(facts, user_id, fact, clock)
  /\ memoryFile' = [exists |-> TRUE, data |-> facts']
  /\ clock' = clock + 1
  /\ result' = [NoResult EXCEPT !.op = "add_memory"]
  /\ hist' = [Called(hist) EXCEPT
                !.fact_log = Append(@, [user_id |-> user_id, fact |-> fact])]
  /\ UNCHANGED <<storeVars, memoryVars, analyticsVars, pending_corrections,
                 cache, personalityVars, req, moodVars, inbox, pending_searches, rateVars>>

(***************************************************************************)
(* PersonalReplyBot.get_reply and the pipeline of AdvancedReplyGraph       *)
(***************************************************************************)
\* the call returns without entering the pipeline
ReturnDirect(user_id, msg, type, reply, from_cache) ==
  /\ result' = [NoResult EXCEPT !.op = "get_reply", !.type = type,
                                !.reply = reply, !.from_cache = from_cache,
                                !.user_id = user_id, !.query = msg,
                                !.pre = Snapshot(conversations, analytics, cache)]
  /\ UNCHANGED req

\* PersonalReplyBot.get_reply up to the call of graph.get_reply
BeginGetReplyBody(message, user_id) ==
  LET msg == Strip(message)
      cache_key == CacheKey(user_id, msg)
  IN  /\ req.pc = "idle"
      /\ hist' = Called(hist)
      /\ IF needs_full_access(msg)
         THEN ReturnDirect(user_id, msg, "permission", PermissionPrompt, FALSE)
         ELSE IF Lower(msg) \in permission_words /\ has_pending_search
         THEN ReturnDirect(user_id, msg, "tool", ToolOutput, FALSE)
         ELSE IF is_file_command(msg)
         THEN ReturnDirect(user_id, msg, "tool", ToolOutput, FALSE)
         ELSE IF cache_key \in DOMAIN cache
         THEN ReturnDirect(user_id, msg, "llm", cache[cache_key], TRUE)
         ELSE /\ req' = [IdleReq EXCEPT
                           !.pc = EntryPoint,
                           !.state = InitialBotState(msg, user_id),
                           !.cache_key = cache_key,
                           !.pre = Snapshot(conversations, analytics, cache)]
              /\ UNCHANGED result
      /\ UNCHANGED <<storeVars, memoryVars, factVars, analyticsVars,
                     pending_corrections, cache, personalityVars, clock,
                     moodVars, inbox, pending_searches, rateVars>>

\* a get_reply call while fewer than MaxCalls calls were made
BeginGetReply(message, user_id) == Idle /\ BeginGetReplyBody(message, user_id)

\* faulty variant of RaisedResult: the exception is caught and a fallback
\* string is returned as the reply
SwallowedResult(r) ==
  [NoResult EXCEPT !.op = "get_reply", !.status = "ok", !.type = "llm",
                   !.reply = FALLBACK_RESPONSES[1],
                   !.user_id = r.state.user_id, !.query = r.state.query,
                   !.trace = r.trace, !.search_calls = r.search_calls,
                   !.llm_calls = r.llm_calls, !.pre = r.pre]

\* the record of a request that ended with an exception: nothing is caught
\* between the provider call and the caller of PersonalReplyBot.get_reply
RaisedResult(r) ==
  [NoResult EXCEPT !.op = "get_reply", !.status = "raised",
                   !.user_id = r.state.user_id, !.query = r.state.query,
                   !.mood = r.state.mood, !.language = r.state.language,
                   !.candidates = Len(r.state.similar_examples),
                   !.trace = r.trace,
                   !.search_calls = r.search_calls, !.llm_calls = r.llm_calls,
                   !.pre = r.pre]

\* a node has run: follow the edge of the compiled graph
Advance(r, node, state) ==
  [r EXCEPT !.pc = GraphEdge(node), !.state = state,
            !.trace = Append(r.trace, node)]

frame == <<storeVars, memoryVars, factVars, analyticsVars, pending_corrections,
           cache, personalityVars, clock, hist, moodVars, inbox, pending_searches, rateVars>>

\* AdvancedReplyGraph._detect_language_step
DetectLanguageStep ==
  /\ req.pc = "detect_language"
  /\ req' = Advance(req, "detect_language",
                    [req.state EXCEPT !.language = detect_language(req.state.query)])
  /\ UNCHANGED <<result, frame>>

\* AdvancedReplyGraph._detect_mood_step
DetectMoodStep ==
  LET mood_result == detect(req.state.query)
  IN  /\ req.pc = "detect_mood"
      /\ req' = Advance(req, "detect_mood",
                        [req.state EXCEPT
                           !.mood = mood_result.mood,
                           !.mood_confidence = mood_result.confidence,
                           !.mood_modifier = get_response_modifier(mood_result)])
      /\ UNCHANGED <<result, frame>>

\* AdvancedReplyGraph._get_context_step; the system prompt of a profile is
\* written as the key of the profile
GetContextStep ==
  LET user_id == req.state.user_id
  IN  /\ req.pc = "get_context"
      /\ req' = Advance(req, "get_context",
                        [req.state EXCEPT
                           !.conversation_context =
                              get_formatted_context(conversations, user_id),
                           !.long_term_memory = get_formatted_memory(facts, user_id),
                           !.system_prompt = personality])
      /\ UNCHANGED <<result, frame>>

\* Document -> candidate of _search_step
Candidate(doc) ==
  [input |-> doc.page_content, reply |-> doc.reply, language |-> doc.language]

\* AdvancedReplyGraph._search_step: one call of similarity_search, which
\* either returns a ranking or fails in the embedding provider
SearchStep ==
  /\ req.pc = "search"
  /\ \/ \E docs \in similarity_search(vector_store, MAX_RESULTS) :
          /\ req' = [Advance(req, "search",
                             [req.state EXCEPT
                                !.similar_docs = docs,
                                !.similar_examples =
                                   [i \in 1..Len(docs) |-> Candidate(docs[i])]])
                       EXCEPT !.search_calls = @ + 1]
          /\ UNCHANGED result
     \/ /\ vector_store.exists
        /\ result' = RaisedResult([req EXCEPT !.search_calls = @ + 1,
                                              !.trace = Append(@, "search")])
        /\ req' = IdleReq
  /\ UNCHANGED frame

\* faulty variant of get_fallback_response: an empty reply
get_fallback_response_empty == {<<>>}

\* ReplyGenerator._get_fallback_response: what random.choice may return
get_fallback_response == {FALLBACK_RESPONSES[i] : i \in 1..Len(FALLBACK_RESPONSES)}

\* faulty variant of UseFallback: the model is called whatever was found
UseFallbackNever(similar_examples) == FALSE

\* `if not similar_examples` of _generate_step
UseFallback(similar_examples) == similar_examples = <<>>

\* AdvancedReplyGraph._generate_step up to the reply: a fallback string, or
\* one call of ReplyGenerator.generate_reply, which returns text or fails
GenerateStep ==
  /\ req.pc = "generate"
  /\ IF UseFallback(req.state.similar_examples)
     THEN \E text \in get_fallback_response :
            /\ req' = [req EXCEPT !.pc = "side_effects",
                                  !.trace = Append(@, "generate"),
                                  !.state.reply = text,
                                  !.state.is_fallback = TRUE]
            /\ UNCHANGED result
     ELSE \/ \E text \in LLMReplies :
               /\ req' = [req EXCEPT !.pc = "side_effects",
                                     !.trace = Append(@, "generate"),
                                     !.llm_calls = @ + 1,
                                     !.state.reply = text,
                                     !.state.is_fallback = FALSE]
               /\ UNCHANGED result
          \/ /\ result' = RaisedResult([req EXCEPT !.llm_calls = @ + 1,
                                                   !.trace = Append(@, "generate")])
             /\ req' = IdleReq
  /\ UNCHANGED frame

\* ghost: the replies remembered after the pipeline answered query of
\* user_id, given those remembered before (none of them once there were more
\* than a hundred)
Remembered(before, user_id, query, reply) ==
  LET kept == IF Cardinality(DOMAIN before) > 100 THEN <<>> ELSE before
      pair == <<user_id, Lower(query)>>
  IN  [p \in DOMAIN kept \cup {pair} |-> IF p = pair THEN reply ELSE kept[p]]

\* the rest of _generate_step (two add_message, one track_message), the
\* return of graph.get_reply and the cache update of PersonalReplyBot.get_reply
SideEffectsStep ==
  LET st == req.state
      user_msg == Message("user", st.query, clock, st.mood, st.language)
      bot_msg == Message("assistant", st.reply, clock + 1, st.mood, st.language)
      convs1 == add_message(conversations, max_turns, st.user_id, user_msg)
      convs2 == add_message(convs1, max_turns, st.user_id, bot_msg)
      kept == IF Cardinality(DOMAIN cache) > 100 THEN <<>> ELSE cache
  IN  /\ req.pc = "side_effects"
      /\ conversations' = convs2
      /\ conversationsFile' = [exists |-> TRUE, data |-> convs2]
      /\ analytics' = track_message(analytics, st.user_id, st.mood, st.language,
                                    DayOf(clock + 2))
      /\ analyticsFile' = analytics_save(analytics')
      /\ clock' = clock + 3
      /\ cache' = [k \in DOMAIN kept \cup {req.cache_key} |->
                     IF k = req.cache_key THEN st.reply ELSE kept[k]]
      /\ result' = [NoResult EXCEPT
                      !.op = "get_reply", !.type = "llm", !.reply = st.reply,
                      !.user_id = st.user_id, !.query = st.query,
                      !.mood = st.mood, !.language = st.language,
                      !.is_fallback = st.is_fallback,
                      !.candidates = Len(st.similar_examples),
                      !.trace = Append(req.trace, "side_effects"),
                      !.search_calls = req.search_calls,
                      !.llm_calls = req.llm_calls, !.pre = req.pre]
      /\ req' = IdleReq
      /\ hist' = [hist EXCEPT
                    !.appended[st.user_id] = @ \o <<user_msg, bot_msg>>,
                    !.cached = Remembered(@, st.user_id, st.query, st.reply)]
      /\ UNCHANGED <<storeVars, max_turns, factVars, pending_corrections,
                     personalityVars, moodVars, inbox, pending_searches, rateVars>>

Next ==
  \/ \E a \in TrainArgs : Train(a[1], a[2], a[3])
  \/ \E u \in CorrectUsers : Correct(u, TextX, TextFoo, TextBar)
  \/ \E k \in PersonalityKeys : SetPersonality(k)
  \/ \E u \in Users : ClearConversation(u)
  \/ \E u \in FactUsers, f \in FactTexts : AddMemory(u, f)
  \/ \E r \in Requests : BeginGetReply(r[1], r[2])
  \/ DetectLanguageStep
  \/ DetectMoodStep
  \/ GetContextStep
  \/ SearchStep
  \/ GenerateStep
  \/ SideEffectsStep

Spec == Init /\ [][Next]_vars

(***************************************************************************)
(* Specification of the Example Store and its index across process starts  *)
(***************************************************************************)
\* the process ends and PersonalReplyBot() is constructed again from the
\* files on disk; the persisted index is found as it was saved, or it was
\* lost or cannot be read (FAISS.load_local raises and the index stays None).
\* Only constructions that complete are starts of a process.
RestartBody ==
  /\ \E found \in {vectorDisk, NoVectorStore} :
       /\ vector_store' = ConstructVectorStore(trainingFile, found)
       /\ vectorDisk' = ConstructVectorStore(trainingFile, found)
       /\ hist' = [Called(hist) EXCEPT
                     !.restarts = @ + 1, !.since_start = 0, !.cached = <<>>,
                     !.started_without_index = ~load_vector_store(found).exists]
  /\ examples' = load_training_data(trainingFile)
  /\ conversations' = load_conversations(conversationsFile, max_turns)
  /\ facts' = load_facts(memoryFile)
  /\ analytics' = analytics_load(analyticsFile)
  /\ pending_corrections' = <<>>
  /\ cache' = <<>>
  /\ personality' = "default"
  /\ botPersonality' = "default"
  /\ result' = [NoResult EXCEPT !.op = "restart"]
  /\ UNCHANGED <<trainingFile, max_turns, conversationsFile, memoryFile,
                 analyticsFile, clock, req, moodVars, inbox, pending_searches, rateVars>>

\* a restart between two calls of the bounded run
Restart == Idle /\ RestartBody

\* the message and the user of the lookups
StoreMessages == { <<104, 105>> }     \* "hi"

StoreUsers == {"u1"}

NextStore ==
  \/ \E a \in TrainArgs : Train(a[1], a[2], a[3])
  \/ \E u \in CorrectUsers : Correct(u, TextX, TextFoo, TextBar)
  \/ Restart
  \/ \E m \in StoreMessages, u \in StoreUsers : BeginGetReply(m, u)
  \/ DetectLanguageStep
  \/ DetectMoodStep
  \/ GetContextStep
  \/ SearchStep
  \/ GenerateStep
  \/ SideEffectsStep

SpecStore == Init /\ [][NextStore]_vars

(***************************************************************************)
(* Specification of the classifier alone                                   *)
(***************************************************************************)
InitMood ==
  /\ Construct(NoTrainingFile, NoVectorStore, 0)
  /\ mdText \in MoodTexts
  /\ mdResult = <<>>
  /\ ldText = <<>>
  /\ ldResult = <<>>

\* one call of MoodDetector.detect(mdText)
DetectMood ==
  /\ mdResult = <<>>
  /\ mdResult' = <<detect(mdText)>>
  /\ UNCHANGED <<storeVars, memoryVars, factVars, analyticsVars,
                 pending_corrections, cache, personalityVars, clock, req,
                 result, hist, mdText, ldText, ldResult, inbox, pending_searches, rateVars>>

NextMood == DetectMood

SpecMood == InitMood /\ [][NextMood]_vars

(***************************************************************************)
(* Specification of the language detector alone                            *)
(***************************************************************************)
InitLanguage ==
  /\ Construct(NoTrainingFile, NoVectorStore, 0)
  /\ mdText = <<>>
  /\ mdResult = <<>>
  /\ ldText \in LanguageTexts
  /\ ldResult = <<>>

\* one call of LanguageDetector.detect(ldText)
DetectLanguage ==
  /\ ldResult = <<>>
  /\ ldResult' = <<detect_language(ldText)>>
  /\ UNCHANGED <<storeVars, memoryVars, factVars, analyticsVars,
                 pending_corrections, cache, personalityVars, clock, req,
                 result, hist, mdText, mdResult, ldText, inbox, pending_searches, rateVars>>

NextLanguage == DetectLanguage

SpecLanguage == InitLanguage /\ [][NextLanguage]_vars

(***************************************************************************)
(* Specification of Analytics alone                                        *)
(***************************************************************************)
\* mood and language arguments of track_message; "None" is the default None
TrackMoods == {"happy", "sad", "", "None"}

TrackLanguages == {"en", "hi", "None"}

InitAnalytics ==
  /\ Construct(NoTrainingFile, NoVectorStore, 0)
  /\ mdText = <<>>
  /\ mdResult = <<>>
  /\ ldText = <<>>
  /\ ldResult = <<>>

\* Analytics.track_message(user_id, mood, language)
TrackMessage(user_id, mood, language) ==
  /\ hist.calls < MaxTracks
  /\ analytics' = track_message(analytics, user_id, mood, language, DayOf(clock))
  /\ analyticsFile' = analytics_save(analytics')
  /\ clock' = clock + 1
  /\ result' = [NoResult EXCEPT !.op = "track_message", !.user_id = user_id,
                                !.mood = mood, !.language = language]
  /\ hist' = [Called(hist) EXCEPT !.tracked_users = @ \cup {user_id}]
  /\ UNCHANGED <<storeVars, memoryVars, factVars, pending_corrections, cache,
                 personalityVars, req, moodVars, inbox, pending_searches, rateVars>>

NextAnalytics ==
  \E u \in Users, m \in TrackMoods, l \in TrackLanguages : TrackMessage(u, m, l)

SpecAnalytics == InitAnalytics /\ [][NextAnalytics]_vars

(***************************************************************************)
(* Specification of LongTermMemory alone                                   *)
(***************************************************************************)
\* the text of the fact added by call number n + 1: a new letter each time
FactTextsAt(n) == { <<97 + n>> }

InitFacts ==
  /\ Construct(NoTrainingFile, NoVectorStore, 0)
  /\ mdText = <<>>
  /\ mdResult = <<>>
  /\ ldText = <<>>
  /\ ldResult = <<>>

\* LongTermMemory.add_fact(user_id, fact)
AddFact(user_id, fact) ==
  /\ hist.calls < MaxFacts
  /\ facts' = add_fact(facts, user_id, fact, clock)
  /\ memoryFile' = [exists |-> TRUE, data |-> facts']
  /\ clock' = clock + 1
  /\ result' = [NoResult EXCEPT !.op = "add_fact", !.user_id = user_id]
  /\ hist' = [Called(hist) EXCEPT
                !.fact_log = Append(@, [user_id |-> user_id, fact |-> fact])]
  /\ UNCHANGED <<storeVars, memoryVars, analyticsVars, pending_corrections,
                 cache, personalityVars, req, moodVars, inbox, pending_searches, rateVars>>

NextFacts == \E u \in Users, f \in FactTextsAt(Len(facts)) : AddFact(u, f)

SpecFacts == InitFacts /\ [][NextFacts]_vars

(***************************************************************************)
(* Specification of ConversationMemory alone, for any capacity             *)
(***************************************************************************)
\* max_turns arguments of ConversationMemory(max_turns); 0 stands for None
MemCapacities == {0, 1, 2, 3}

MemRoles == {"user", "assistant"}

MemContents == { <<104, 105>> }     \* "hi"

InitMem ==
  /\ \E arg \in MemCapacities : Construct(NoTrainingFile, NoVectorStore, arg)
  /\ mdText = <<>>
  /\ mdResult = <<>>
  /\ ldText = <<>>
  /\ ldResult = <<>>

memFrame == <<storeVars, max_turns, factVars, analyticsVars, pending_corrections,
              cache, personalityVars, req, result, moodVars, inbox, pending_searches, rateVars>>

\* ConversationMemory.add_message(user_id, role, content)
MemAddMessage(user_id, role, content) ==
  LET message == Message(role, content, clock, "None", "None")
  IN  /\ hist.calls < MaxMsgs
      /\ conversations' = add_message(conversations, max_turns, user_id, message)
      /\ conversationsFile' = [exists |-> TRUE, data |-> conversations']
      /\ clock' = clock + 1
      /\ hist' = [Called(hist) EXCEPT !.appended[user_id] = Append(@, message)]
      /\ UNCHANGED memFrame

\* faulty variant of MemClearConversation: the cleared store is not saved
MemClearConversationUnsaved(user_id) ==
  /\ hist.calls < MaxMsgs
  /\ IF user_id \in DOMAIN conversations
     THEN /\ conversations' = clear_conversation(conversations, user_id)
          /\ UNCHANGED conversationsFile
     ELSE UNCHANGED <<conversations, conversationsFile>>
  /\ hist' = [Called(hist) EXCEPT !.appended[user_id] = <<>>]
  /\ UNCHANGED <<clock, memFrame>>

\* ConversationMemory.clear_conversation(user_id)
MemClearConversation(user_id) ==
  /\ hist.calls < MaxMsgs
  /\ IF user_id \in DOMAIN conversations
     THEN /\ conversations' = clear_conversation(conversations, user_id)
          /\ conversationsFile' = [exists |-> TRUE, data |-> conversations']
     ELSE UNCHANGED <<conversations, conversationsFile>>
  /\ hist' = [Called(hist) EXCEPT !.appended[user_id] = <<>>]
  /\ UNCHANGED <<clock, memFrame>>

NextMem ==
  \/ \E u \in Users, r \in MemRoles, c \in MemContents : MemAddMessage(u, r, c)
  \/ \E u \in Users : MemClearConversation(u)

SpecMem == InitMem /\ [][NextMem]_vars

(***************************************************************************)
(* Specification of the three persisted stores across process starts       *)
(***************************************************************************)
\* max_turns arguments of the persisted-store runs; 0 stands for None
PersistCapacities == {0, 1}

\* (mood, language) arguments of track_message in these runs
PersistTracks == { <<"happy", "en">>, <<"None", "None">> }

InitPersist ==
  /\ \E arg \in PersistCapacities : Construct(NoTrainingFile, NoVectorStore, arg)
  /\ mdText = <<>>
  /\ mdResult = <<>>
  /\ ldText = <<>>
  /\ ldResult = <<>>

\* a call is made while fewer than MaxMsgs calls were made
PersistBound == req.pc = "idle" /\ hist.calls < MaxMsgs

NextPersist ==
  \/ \E u \in Users, c \in MemContents : MemAddMessage(u, "user", c)
  \/ \E u \in Users : MemClearConversation(u)
  \/ \E f \in FactTextsAt(Len(facts)) : PersistBound /\ AddFact("u1", f)
  \/ \E t \in PersistTracks : PersistBound /\ TrackMessage("u1", t[1], t[2])
  \/ PersistBound /\ RestartBody

SpecPersist == InitPersist /\ [][NextPersist]_vars

(***************************************************************************)
(* Specification of the correct calls alone, empty fields included         *)
(***************************************************************************)
\* (query, original reply, corrected reply) arguments of correct: each field
\* given or empty
CorrectArgs == {TextX, <<>>} \X {TextFoo, <<>>} \X {TextBar, <<>>}

NextCorrect ==
  \E u \in CorrectUsers, a \in CorrectArgs : Correct(u, a[1], a[2], a[3])

SpecCorrect == Init /\ [][NextCorrect]_vars

(***************************************************************************)
(* Specification of the corrections and feedback logs of Analytics         *)
(***************************************************************************)
\* lengths of the two logs in the analytics document an earlier process left
PreloadSizes == {0, 99, 100}

\* the document Analytics._save wrote after n track_correction and m
\* track_feedback calls of an earlier process, made at times before 0
PreloadedAnalyticsFile(n, m) ==
  IF n = 0 /\ m = 0 THEN NoFile
  ELSE [exists |-> TRUE,
        data |-> [EmptyAnalytics EXCEPT
           !.corrections =
              [i \in 1..n |-> [user_id |-> "u1", original |-> TextFoo,
                               corrected |-> TextBar,
                               timestamp |-> i - n - m - 1]],
           !.feedback =
              [i \in 1..m |-> [user_id |-> "u1", reply |-> TextFoo,
                               type |-> "positive",
                               timestamp |-> i - m - 1]]]]

FeedbackTypes == {"positive"}

InitLogs ==
  /\ \E n \in PreloadSizes, m \in PreloadSizes :
        ConstructWith(NoTrainingFile, NoVectorStore, 0, PreloadedAnalyticsFile(n, m))
  /\ mdText = <<>>
  /\ mdResult = <<>>
  /\ ldText = <<>>
  /\ ldResult = <<>>

\* Analytics.track_correction(user_id, original_reply, corrected_reply)
TrackCorrection(user_id, original_reply, corrected_reply) ==
  /\ PersistBound
  /\ analytics' = track_correction(analytics, user_id, original_reply,
                                   corrected_reply, clock)
  /\ analyticsFile' = analytics_save(analytics')
  /\ clock' = clock + 1
  /\ result' = [NoResult EXCEPT !.op = "track_correction", !.user_id = user_id]
  /\ hist' = Called(hist)
  /\ UNCHANGED <<storeVars, memoryVars, factVars, pending_corrections, cache,
                 personalityVars, req, moodVars, inbox, pending_searches, rateVars>>

\* Analytics.track_feedback(user_id, reply, feedback_type)
TrackFeedback(user_id, reply, feedback_type) ==
  /\ PersistBound
  /\ analytics' = track_feedback(analytics, user_id, reply, feedback_type, clock)
  /\ analyticsFile' = analytics_save(analytics')
  /\ clock' = clock + 1
  /\ result' = [NoResult EXCEPT !.op = "track_feedback", !.user_id = user_id]
  /\ hist' = Called(hist)
  /\ UNCHANGED <<storeVars, memoryVars, factVars, pending_corrections, cache,
                 personalityVars, req, moodVars, inbox, pending_searches, rateVars>>

NextLogs ==
  \/ TrackCorrection("u1", TextFoo, TextBar)
  \/ \E t \in FeedbackTypes : TrackFeedback("u1", TextFoo, t)
  \/ PersistBound /\ RestartBody

SpecLogs == InitLogs /\ [][NextLogs]_vars

(***************************************************************************)
(* Specification of the HTTP server: handlers on one event loop            *)
(***************************************************************************)
\* the handlers that call get_reply: POST /chat and POST /telegram/webhook
ServerHandlers == {"chat", "telegram"}

\* the message each user sends
ServerMessage(user_id) == IF user_id = "u1" THEN <<104, 105>> ELSE TextX

\* a request arrives at the server
Receive(user_id, handler) ==
  /\ user_id \notin DOMAIN inbox
  /\ inbox' = [u \in DOMAIN inbox \cup {user_id} |->
                 IF u = user_id
                 THEN [handler |-> handler, message |-> ServerMessage(user_id),
                       pc |-> "received", reply |-> <<>>, rivals |-> {}]
                 ELSE inbox[u]]
  /\ UNCHANGED <<storeVars, memoryVars, factVars, analyticsVars,
                 pending_corrections, cache, personalityVars, clock, req,
                 result, hist, moodVars, pending_searches, rateVars>>

\* no handler is running: the thread of the event loop is free to start or
\* resume a coroutine
LoopFree ==
  /\ req.pc = "idle"
  /\ \A v \in DOMAIN inbox : inbox[v].pc # "dispatched"

\* telegram_webhook up to `data = await request.json()`, where the coroutine
\* is suspended
ParseBody(user_id) ==
  /\ LoopFree
  /\ user_id \in DOMAIN inbox
  /\ inbox[user_id].handler = "telegram"
  /\ inbox[user_id].pc = "received"
  /\ inbox' = [inbox EXCEPT ![user_id].pc = "parsed"]
  /\ UNCHANGED <<storeVars, memoryVars, factVars, analyticsVars,
                 pending_corrections, cache, personalityVars, clock, req,
                 result, hist, moodVars, pending_searches, rateVars>>

\* the event loop runs the handler of the request up to its call of
\* bot.get_reply (chat: from its start; telegram_webhook: from its await);
\* rivals are the requests received and not yet answered at that moment
Dispatch(user_id) ==
  /\ LoopFree
  /\ user_id \in DOMAIN inbox
  /\ inbox[user_id].pc =
       (IF inbox[user_id].handler = "chat" THEN "received" ELSE "parsed")
  /\ inbox' = [inbox EXCEPT
                 ![user_id].pc = "dispatched",
                 ![user_id].rivals =
                    {v \in DOMAIN inbox \ {user_id} :
                        inbox[v].pc \in {"received", "parsed"}}]
  /\ UNCHANGED <<storeVars, memoryVars, factVars, analyticsVars,
                 pending_corrections, cache, personalityVars, clock, req,
                 result, hist, moodVars, pending_searches, rateVars>>

\* bot.get_reply has returned to the handler of the request
GetReplyReturned(user_id) ==
  result.op = "get_reply" /\ result.user_id = user_id

\* the handler calls bot.get_reply(message, user_id)
ServerGetReply(user_id) ==
  /\ user_id \in DOMAIN inbox
  /\ inbox[user_id].pc = "dispatched"
  /\ ~GetReplyReturned(user_id)
  /\ BeginGetReply(inbox[user_id].message, user_id)

\* the handler returns the reply, or the exception of get_reply leaves it
Respond(user_id) ==
  /\ user_id \in DOMAIN inbox
  /\ inbox[user_id].pc = "dispatched"
  /\ req.pc = "idle"
  /\ GetReplyReturned(user_id)
  /\ inbox' = [inbox EXCEPT
                 ![user_id].pc = IF result.status = "raised" THEN "failed"
                                 ELSE "done",
                 ![user_id].reply = result.reply]
  /\ UNCHANGED <<storeVars, memoryVars, factVars, analyticsVars,
                 pending_corrections, cache, personalityVars, clock, req,
                 result, hist, moodVars, pending_searches, rateVars>>

NextServer ==
  \/ \E u \in Users, h \in ServerHandlers : Receive(u, h)
  \/ \E u \in Users : ParseBody(u)
  \/ \E u \in Users : Dispatch(u)
  \/ \E u \in Users : ServerGetReply(u)
  \/ DetectLanguageStep
  \/ DetectMoodStep
  \/ GetContextStep
  \/ SearchStep
  \/ GenerateStep
  \/ SideEffectsStep
  \/ \E u \in Users : Respond(u)

SpecServer == Init /\ [][NextServer]_vars

(***************************************************************************)
(* Specification of Analytics.get_stats on the documents it can find       *)
(***************************************************************************)
\* the moods MoodDetector.detect can return, in the order of config.MOODS
MoodNames == [i \in 1..Len(MOODS) |-> MOODS[i].mood]

\* the codes of config.SUPPORTED_LANGUAGES
LanguageCodes == <<"en", "hi", "te", "ta", "ml">>

\* counts of the languages in the documents considered (0: never seen)
LanguageCounts ==
  { <<0, 0, 0, 0, 0>>, <<1, 1, 1, 1, 1>>, <<2, 1, 2, 0, 1>> }

\* the dict {names[i]: counts[i]} without the entries whose count is 0
CountsDict(names, counts) ==
  [k \in {names[i] : i \in {j \in 1..Len(names) : counts[j] > 0}} |->
     counts[CHOOSE i \in 1..Len(names) : names[i] = k]]

RECURSIVE SumSeq(_)
SumSeq(s) == IF s = <<>> THEN 0 ELSE Head(s) + SumSeq(Tail(s))

\* the document an earlier process left after counts[m] track_message calls
\* with mood m alone and counts[l] calls with language l alone, all of user u1
\* on one day
StatsDocument(mood_counts, language_counts) ==
  LET total == SumSeq(mood_counts) + SumSeq(language_counts)
  IN  IF total = 0 THEN NoFile
      ELSE [exists |-> TRUE,
            data |-> [EmptyAnalytics EXCEPT
               !.total_messages = total,
               !.messages_by_user = [u \in {"u1"} |-> total],
               !.daily_stats = [day \in {-1} |-> total],
               !.messages_by_mood = CountsDict(MoodNames, mood_counts),
               !.messages_by_language =
                  CountsDict(LanguageCodes, language_counts)]]

InitStats ==
  /\ \E mc \in [1..Len(MoodNames) -> 0..MaxCount], lc \in LanguageCounts :
        ConstructWith(NoTrainingFile, NoVectorStore, 0, StatsDocument(mc, lc))
  /\ mdText = <<>>
  /\ mdResult = <<>>
  /\ ldText = <<>>
  /\ ldResult = <<>>

\* the keys of d in the order of names
KeysInOrder(names, d) ==
  LET RECURSIVE Keep(_)
      Keep(s) == IF s = <<>> THEN <<>>
                 ELSE (IF Head(s) \in DOMAIN d THEN <<Head(s)>> ELSE <<>>)
                      \o Keep(Tail(s))
  IN  Keep(names)

\* the insertion orders of the keys of d that are considered: the order of
\* names and its reverse
InsertionOrders(names, d) ==
  LET keys == KeysInOrder(names, d)
  IN  {keys, [i \in 1..Len(keys) |-> keys[Len(keys) + 1 - i]]}

\* Analytics.get_stats(); the dicts of self.data hold their keys in some
\* insertion order
GetStats ==
  /\ result.op # "get_stats"
  /\ \E mk \in InsertionOrders(MoodNames, analytics.messages_by_mood),
        lk \in InsertionOrders(LanguageCodes, analytics.messages_by_language) :
        result' = [NoResult EXCEPT
                     !.op = "get_stats",
                     !.stats = [top_moods |->
                                   top_five(analytics.messages_by_mood, mk),
                                top_languages |->
                                   top_five(analytics.messages_by_language, lk),
                                mood_keys |-> mk, language_keys |-> lk]]
  /\ hist' = Called(hist)
  /\ UNCHANGED <<storeVars, memoryVars, factVars, analyticsVars,
                 pending_corrections, cache, personalityVars, clock, req,
                 moodVars, inbox, pending_searches, rateVars>>

NextStats == GetStats

SpecStats == InitStats /\ [][NextStats]_vars

(***************************************************************************)
(* Specification of the three stores when a write to disk may fail         *)
(***************************************************************************)
\* what is left of a document when open(path, 'w') or json.dump raises: the
\* document as it was (open failed) or a truncated one (the dump failed)
TornDocument == [exists |-> TRUE, data |-> <<>>, torn |-> TRUE]

AfterFailedWrite(file) == {file, TornDocument}

\* faulty variant of AddMessageWriteFails: the append is undone when the
\* write fails
AddMessageWriteFailsRolledBack(user_id, role, content) ==
  LET message == Message(role, content, clock, "None", "None")
  IN  /\ Idle
      /\ conversations' = conversations
      /\ conversationsFile' \in AfterFailedWrite(conversationsFile)
      /\ clock' = clock + 1
      /\ result' = [NoResult EXCEPT !.op = "add_message", !.status = "raised",
                                    !.user_id = user_id]
      /\ hist' = [Called(hist) EXCEPT !.appended[user_id] = Append(@, message)]
      /\ UNCHANGED <<storeVars, max_turns, factVars, analyticsVars,
                     pending_corrections, cache, personalityVars, req,
                     moodVars, inbox, pending_searches, rateVars>>

\* ConversationMemory.add_message whose _save_conversations raises
AddMessageWriteFails(user_id, role, content) ==
  LET message == Message(role, content, clock, "None", "None")
  IN  /\ Idle
      /\ conversations' = add_message(conversations, max_turns, user_id, message)
      /\ conversationsFile' \in AfterFailedWrite(conversationsFile)
      /\ clock' = clock + 1
      /\ result' = [NoResult EXCEPT !.op = "add_message", !.status = "raised",
                                    !.user_id = user_id]
      /\ hist' = [Called(hist) EXCEPT !.appended[user_id] = Append(@, message)]
      /\ UNCHANGED <<storeVars, max_turns, factVars, analyticsVars,
                     pending_corrections, cache, personalityVars, req,
                     moodVars, inbox, pending_searches, rateVars>>

\* LongTermMemory.add_fact whose _save raises
AddFactWriteFails(user_id, fact) ==
  /\ Idle
  /\ facts' = add_fact(facts, user_id, fact, clock)
  /\ memoryFile' \in AfterFailedWrite(memoryFile)
  /\ clock' = clock + 1
  /\ result' = [NoResult EXCEPT !.op = "add_fact", !.status = "raised",
                                !.user_id = user_id]
  /\ hist' = [Called(hist) EXCEPT
                !.fact_log = Append(@, [user_id |-> user_id, fact |-> fact])]
  /\ UNCHANGED <<storeVars, memoryVars, analyticsVars, pending_corrections,
                 cache, personalityVars, req, moodVars, inbox, pending_searches, rateVars>>

\* Analytics.track_message whose _save raises
TrackMessageWriteFails(user_id, mood, language) ==
  /\ Idle
  /\ analytics' = track_message(analytics, user_id, mood, language, DayOf(clock))
  /\ analyticsFile' \in AfterFailedWrite(analyticsFile)
  /\ clock' = clock + 1
  /\ result' = [NoResult EXCEPT !.op = "track_message", !.status = "raised",
                                !.user_id = user_id, !.mood = mood,
                                !.language = language]
  /\ hist' = [Called(hist) EXCEPT !.tracked_users = @ \cup {user_id}]
  /\ UNCHANGED <<storeVars, memoryVars, factVars, pending_corrections, cache,
                 personalityVars, req, moodVars, inbox, pending_searches, rateVars>>

NextFail ==
  \/ \E u \in Users, c \in MemContents : Idle /\ MemAddMessage(u, "user", c)
  \/ \E u \in Users, c \in MemContents : AddMessageWriteFails(u, "user", c)
  \/ \E f \in FactTextsAt(Len(facts)) : Idle /\ AddFact("u1", f)
  \/ \E f \in FactTextsAt(Len(facts)) : AddFactWriteFails("u1", f)
  \/ Idle /\ TrackMessage("u1", "happy", "en")
  \/ TrackMessageWriteFails("u1", "happy", "en")

SpecFail == InitPersist /\ [][NextFail]_vars

(***************************************************************************)
(* Specification of get_reply and clear_conversation on a conversations    *)
(* document left by an earlier run                                         *)
(***************************************************************************)
\* exchanges a user had with the bot before this start
EarlierExchanges == {0, 4, 5}

\* the conversations document an earlier run wrote after n exchanges with
\* user_id: one (user, assistant) pair per get_reply, the latest at -2, -1
EarlierConversationsFile(user_id, n) ==
  IF n = 0 THEN NoFile
  ELSE [exists |-> TRUE,
        data |-> [u \in {user_id} |->
                    [i \in 1..(2 * n) |->
                       IF i % 2 = 1
                       THEN Message("user", TextX, i - 2 * n - 1, "neutral", "en")
                       ELSE Message("assistant", TextBar, i - 2 * n - 1,
                                    "neutral", "en")]]]

InitPaired ==
  /\ \E file \in InitialTrainingFiles, n \in EarlierExchanges :
       ConstructOn(file, NoVectorStore, 0, NoFile,
                   EarlierConversationsFile("u1", n))
  /\ mdText = <<>>
  /\ mdResult = <<>>
  /\ ldText = <<>>
  /\ ldResult = <<>>

NextPaired ==
  \/ \E r \in Requests : BeginGetReply(r[1], r[2])
  \/ DetectLanguageStep
  \/ DetectMoodStep
  \/ GetContextStep
  \/ SearchStep
  \/ GenerateStep
  \/ SideEffectsStep
  \/ \E u \in Users : ClearConversation(u)

SpecPaired == InitPaired /\ [][NextPaired]_vars

(***************************************************************************)
(* Specification of the reply cache of PersonalReplyBot: a long run of     *)
(* get_reply calls with new messages, then the other calls on a full cache *)
(***************************************************************************)
\* calls made in a run
CacheCalls == 104

\* the last calls of a run, which may be any call of the bot
CacheLastCalls == 2

\* the n-th new message: "q" and three digits
NumberedMessage(n) ==
  <<113, 48 + ((n \div 100) % 10), 48 + ((n \div 10) % 10), 48 + (n % 10)>>

\* get_reply calls <<message, user_id>> of the last calls: the first message
\* again, as "q000" and as " Q000 ", and the same message of another user
RepeatedRequests ==
  { <<NumberedMessage(0), "u1">>, << <<32, 81, 48, 48, 48, 32>>, "u1" >>,
    <<NumberedMessage(0), "u2">> }

InitCache ==
  /\ ConstructOn(save_training_data(<<TrainingExample(TextX, TextFoo, "en")>>, "en"),
                 NoVectorStore, 0, NoFile, NoFile)
  /\ mdText = <<>>
  /\ mdResult = <<>>
  /\ ldText = <<>>
  /\ ldResult = <<>>

\* a call is made while fewer than CacheCalls calls were made
CacheBound == hist.calls < CacheCalls

\* one of the last CacheLastCalls calls of a run
CacheLast == CacheBound /\ hist.calls >= CacheCalls - CacheLastCalls

\* get_reply with a message that is as new as the cache is large
CacheFill ==
  CacheBound /\ BeginGetReplyBody(NumberedMessage(Cardinality(DOMAIN cache)), "u1")

NextCache ==
  \/ CacheFill
  \/ \E r \in RepeatedRequests : CacheLast /\ BeginGetReplyBody(r[1], r[2])
  \/ DetectLanguageStep
  \/ DetectMoodStep
  \/ GetContextStep
  \/ SearchStep
  \/ GenerateStep
  \/ SideEffectsStep
  \/ CacheLast /\ ClearConversationBody("u2")
  \/ CacheLast /\ TrainBody(TextY, TextFoo, "hi")
  \/ CacheLast /\ CorrectBody("u1", TextX, TextFoo, TextBar)
  \/ CacheLast /\ SetPersonalityBody("friendly")

SpecCache == InitCache /\ [][NextCache]_vars

(***************************************************************************)
(* Specification of the chat endpoint of src/server.py with its pending    *)
(* searches                                                                *)
(***************************************************************************)
\* the confirmation words of the chat endpoint: those of the bot and "y"
confirmation_words == permission_words \cup { <<121>> }

\* faulty variant of pop_pending: the entry stays
pop_pending_kept(ps, user_id) == ps

\* pending_searches.pop(user_id): the entries that remain
pop_pending(ps, user_id) == [u \in DOMAIN ps \ {user_id} |-> ps[u]]

\* pending_searches[user_id] = query
store_pending(ps, user_id, query) ==
  [u \in DOMAIN ps \cup {user_id} |-> IF u = user_id THEN query ELSE ps[u]]

\* messages sent to the chat endpoint: "find x", "yes", "Y"
ChatMessages == { <<102, 105, 110, 100, 32, 120>>, <<121, 101, 115>>, <<89>> }

\* messages sent to the Telegram webhook: "find x", "yes"
TelegramMessages == { <<102, 105, 110, 100, 32, 120>>, <<121, 101, 115>> }

\* POST /chat, a coroutine without await: the confirmed full search, or the
\* call of bot.get_reply and the storing of the search its permission prompt
\* asks for
Chat(user_id, message) ==
  IF user_id \in DOMAIN pending_searches /\ Lower(message) \in confirmation_words
  THEN /\ Idle
       /\ pending_searches' = pop_pending(pending_searches, user_id)
       /\ result' = [NoResult EXCEPT !.op = "full_search", !.type = "tool",
                                     !.reply = ToolOutput,
                                     !.user_id = user_id, !.query = message]
       /\ hist' = [Called(hist) EXCEPT
                     !.searches = Append(@, [user_id |-> user_id,
                                             query |-> pending_searches[user_id]])]
       /\ UNCHANGED <<storeVars, memoryVars, factVars, analyticsVars,
                      pending_corrections, cache, personalityVars, clock, req,
                      moodVars, inbox, rateVars>>
  ELSE IF needs_full_access(Strip(message))
  THEN /\ Idle
       /\ ReturnDirect(user_id, Strip(message), "permission", PermissionPrompt,
                       FALSE)
       /\ pending_searches' =
            store_pending(pending_searches, user_id, Strip(message))
       /\ hist' = [Called(hist) EXCEPT
                     !.prompts = Append(@, [user_id |-> user_id,
                                            query |-> Strip(message)])]
       /\ UNCHANGED <<storeVars, memoryVars, factVars, analyticsVars,
                      pending_corrections, cache, personalityVars, clock,
                      moodVars, inbox, rateVars>>
  ELSE BeginGetReply(message, user_id)

\* POST /webhook/telegram after its await: bot.get_reply and nothing else
Telegram(user_id, message) == BeginGetReply(message, user_id)

NextSearch ==
  \/ \E u \in Users, m \in ChatMessages : Chat(u, m)
  \/ \E m \in TelegramMessages : Telegram("u1", m)
  \/ DetectLanguageStep
  \/ DetectMoodStep
  \/ GetContextStep
  \/ SearchStep
  \/ GenerateStep
  \/ SideEffectsStep

\* the server starts on an Example Store of one example
InitSearch == InitCache

SpecSearch == InitSearch /\ [][NextSearch]_vars

(***************************************************************************)
(* Specification of the rate limit of src/src/security.py                  *)
(***************************************************************************)
\* calls made in a run
RateCalls == 5

\* the last reading of the clock in a run, in seconds
RateSeconds == 5

\* RATE_LIMIT_REQUESTS and RATE_LIMIT_WINDOW as the environment sets them
RateLimitConfigs ==
  { [requests |-> 1, window_seconds |-> 2],
    [requests |-> 2, window_seconds |-> 3] }

\* self.rate_limits.get(identifier, [])
LimitsOf(limits, identifier) ==
  IF identifier \in DOMAIN limits THEN limits[identifier] ELSE <<>>

\* the instants of s that lie less than window seconds before now
WithinWindow(s, now, window) ==
  SelectSeq(s, LAMBDA t : now - t < window)

\* faulty variant of check_rate_limit: a refused call is recorded too
check_rate_limit_records_refusals(limits, config, identifier, now) ==
  LET kept == WithinWindow(LimitsOf(limits, identifier), now,
                           config.window_seconds)
      admit == ~(Len(kept) >= config.requests)
  IN  << [i \in DOMAIN limits \cup {identifier} |->
            IF i = identifier THEN Append(kept, now) ELSE limits[i]],
         admit >>

\* SecurityManager.check_rate_limit(identifier) at the instant now:
\* <<rate_limits afterwards, value returned>>
check_rate_limit(limits, config, identifier, now) ==
  LET kept == WithinWindow(LimitsOf(limits, identifier), now,
                           config.window_seconds)
      admit == ~(Len(kept) >= config.requests)
  IN  << [i \in DOMAIN limits \cup {identifier} |->
            IF i = identifier
            THEN (IF admit THEN Append(kept, now) ELSE kept)
            ELSE limits[i]],
         admit >>

InitRate ==
  /\ \E config \in RateLimitConfigs :
       ConstructIn(NoTrainingFile, NoVectorStore, 0, NoFile, NoFile, config)
  /\ mdText = <<>>
  /\ mdResult = <<>>
  /\ ldText = <<>>
  /\ ldResult = <<>>

rateFrame == <<storeVars, memoryVars, factVars, analyticsVars,
               pending_corrections, cache, personalityVars, req, moodVars,
               inbox, pending_searches, rate_limit_config>>

\* a second passes between two calls
Tick ==
  /\ clock < RateSeconds
  /\ clock' = clock + 1
  /\ UNCHANGED <<rateFrame, rate_limits, result, hist>>

\* the ghost record of the admitted calls after a call of identifier
Admitted(h, identifier, now, admit) ==
  IF admit
  THEN [i \in DOMAIN h.admitted \cup {identifier} |->
          IF i = identifier THEN Append(LimitsOf(h.admitted, i), now)
          ELSE h.admitted[i]]
  ELSE h.admitted

\* security_manager.check_rate_limit(identifier)
CheckRateLimit(identifier) ==
  LET r == check_rate_limit(rate_limits, rate_limit_config, identifier, clock)
  IN  /\ hist.calls < RateCalls
      /\ rate_limits' = r[1]
      /\ result' = [NoResult EXCEPT !.op = "check_rate_limit",
                                    !.status = IF r[2] THEN "true" ELSE "false",
                                    !.user_id = identifier]
      /\ hist' = [Called(hist) EXCEPT
                    !.admitted = Admitted(hist, identifier, clock, r[2])]
      /\ UNCHANGED <<rateFrame, clock>>

\* a call of a function decorated with rate_limit(), up to the call of the
\* function: the wrapper raises when check_rate_limit refuses
RateLimitedCall(identifier) ==
  LET r == check_rate_limit(rate_limits, rate_limit_config, identifier, clock)
  IN  /\ hist.calls < RateCalls
      /\ rate_limits' = r[1]
      /\ result' = [NoResult EXCEPT !.op = "rate_limit",
                                    !.status = IF r[2] THEN "ok" ELSE "raised",
                                    !.user_id = identifier]
      /\ hist' = [Called(hist) EXCEPT
                    !.admitted = Admitted(hist, identifier, clock, r[2])]
      /\ UNCHANGED <<rateFrame, clock>>

NextRate ==
  \/ Tick
  \/ \E i \in Users : CheckRateLimit(i)
  \/ \E i \in Users : RateLimitedCall(i)

SpecRate == InitRate /\ [][NextRate]_vars

(***************************************************************************)
(* Properties                                                              *)
(***************************************************************************)
\* number of entries of the Similarity Index
IndexSize == Len(vector_store.docs)

\* the persisted Example Store as the list of its {input, reply} entries
PersistedPairs(file) == IF file.exists THEN file.examples ELSE <<>>

\* this step is the return of a train or correct call
TrainOrCorrectReturns ==
  \/ hist'.train_calls = hist.train_calls + 1
  \/ hist'.correct_calls = hist.correct_calls + 1

\* C1: between calls, the Similarity Index holds as many examples as were
\* ever added: the initial corpus plus one per train call and one per correct
\* call (a number that never decreases).
C1_IndexConsistency ==
  req.pc = "idle" =>
     IndexSize = hist.initial_count + hist.train_calls + hist.correct_calls

\* C2: a call correct(X, foo, bar, U) returns the acknowledgement, appends
\* exactly the example {input: X, reply: bar, language: "en"} to the persisted
\* Example Store, and leaves that example in the Similarity Index.
C2_CorrectionClosesLoop ==
  [][hist'.correct_calls = hist.correct_calls + 1 =>
       /\ result'.status = "ok"
       /\ result'.reply = CorrectionAck
       /\ load_training_data(trainingFile') =
            Append(load_training_data(trainingFile),
                   TrainingExample(TextX, TextBar, "en"))
       /\ \E i \in 1..Len(vector_store'.docs) :
             Candidate(vector_store'.docs[i]) = TrainingExample(TextX, TextBar, "en")
    ]_vars

\* C3: every train or correct call leaves the persisted corpus equal to the
\* previous persisted corpus with exactly one example appended at the end.
C3_AppendOnly ==
  [][TrainOrCorrectReturns =>
       LET old == PersistedPairs(trainingFile)
           new == PersistedPairs(trainingFile')
       IN  /\ Len(new) = Len(old) + 1
           /\ SubSeq(new, 1, Len(old)) = old
    ]_vars

\* C4: a user's conversation is the last max_turns messages appended for that
\* user since it was last cleared, oldest first; so after T+k appends (k >= 1)
\* it has length exactly T and starts with the (k+1)-th message, and its
\* length never exceeds T.
C4_MemoryBound ==
  \A u \in Users :
     LET ctx == get_context(conversations, u)
         all == hist.appended[u]
         n == Len(all)
         T == max_turns
     IN  /\ Len(ctx) <= T
         /\ n <= T => ctx = all
         /\ n > T =>
              /\ Len(ctx) = T
              /\ ctx[1] = all[n - T + 1]
              /\ \A i \in 1..T : ctx[i] = all[n - T + i]
         /\ \A i, j \in 1..Len(ctx) : i < j => ctx[i].timestamp < ctx[j].timestamp

\* C4 witness: a conversation that has overflowed by at least two messages
C4_Witness ==
  \E u \in Users :
     /\ Len(hist.appended[u]) >= max_turns + 2
     /\ Len(get_context(conversations, u)) = max_turns

\* this step returns a chat reply of get_reply (from the pipeline or the cache)
ChatReplyReturns ==
  /\ result'.op = "get_reply" /\ result'.status = "ok" /\ result'.type = "llm"
  /\ \/ req.pc = "side_effects"
     \/ req.pc = "idle" /\ req'.pc = "idle" /\ hist'.calls = hist.calls + 1

\* the side effects of one reply, from the state before to the state after
SideEffectsApplied ==
  LET u == result'.user_id
      old == get_context(conversations, u)
      new == get_context(conversations', u)
      n == Len(new)
      mood == detect(result'.query).mood
      language == detect_language(result'.query)
      Count(d, k) == IF k \in DOMAIN d THEN d[k] ELSE 0
  IN  /\ n >= 2
      /\ new = LastN(old \o <<new[n - 1], new[n]>>, max_turns)
      /\ new[n - 1].role = "user" /\ new[n - 1].content = result'.query
      /\ new[n].role = "assistant" /\ new[n].content = result'.reply
      /\ new[n - 1].mood = mood /\ new[n - 1].language = language
      /\ new[n].mood = mood /\ new[n].language = language
      /\ \A v \in DOMAIN conversations' \ {u} :
            get_context(conversations', v) = get_context(conversations, v)
      /\ analytics'.total_messages = analytics.total_messages + 1
      /\ \A k \in DOMAIN analytics'.messages_by_user :
            Count(analytics'.messages_by_user, k) =
              Count(analytics.messages_by_user, k) + (IF k = u THEN 1 ELSE 0)
      /\ \A k \in DOMAIN analytics'.messages_by_mood :
            Count(analytics'.messages_by_mood, k) =
              Count(analytics.messages_by_mood, k) + (IF k = mood THEN 1 ELSE 0)
      /\ \A k \in DOMAIN analytics'.messages_by_language :
            Count(analytics'.messages_by_language, k) =
              Count(analytics.messages_by_language, k)
                + (IF k = language THEN 1 ELSE 0)
      /\ mood \in DOMAIN analytics'.messages_by_mood
      /\ language \in DOMAIN analytics'.messages_by_language
      /\ u \in DOMAIN analytics'.messages_by_user

\* C5 as stated: every get_reply call that returns a chat reply appends the
\* user message and the reply to the user's conversation, stamped with the
\* detected mood and language, and increments the analytics counters once.
C5_SideEffectsOnEveryReply ==
  [][ChatReplyReturns => SideEffectsApplied]_vars

\* C5 amended: every get_reply call that returns a chat reply produced by the
\* pipeline (not taken from the reply cache), in the fallback branch and in
\* the generated branch alike, has these side effects.
C5_SideEffectsOnPipelineReply ==
  [][ChatReplyReturns /\ ~result'.from_cache => SideEffectsApplied]_vars

\* C5 witness: a generated (not fallback) reply has just been returned
C5_Witness ==
  /\ result.op = "get_reply" /\ result.type = "llm" /\ result.status = "ok"
  /\ ~result.from_cache /\ ~result.is_fallback
  /\ result.user_id \in DOMAIN conversations
  /\ analytics.total_messages >= 1

\* C6: when the language-model call of Generate fails, the request ends with
\* the failure and no reply, the model was called once, and conversation
\* memory, analytics and the reply cache (and their files) are as they were
\* when the request started.
C6_FailedGenerationLeavesNoTrace ==
  [][req.pc = "generate" /\ req'.pc = "idle" =>
       /\ result'.op = "get_reply"
       /\ result'.status = "raised"
       /\ result'.reply = <<>>
       /\ result'.llm_calls = 1
       /\ conversations' = req.pre.conversations
       /\ analytics' = req.pre.analytics
       /\ cache' = req.pre.cache
       /\ UNCHANGED <<conversationsFile, analyticsFile>>
    ]_vars

\* C6 witness: a request failed in Generate after earlier replies were recorded
C6_Witness ==
  /\ result.op = "get_reply" /\ result.status = "raised"
  /\ result.llm_calls = 1
  /\ result.trace[Len(result.trace)] = "generate"
  /\ analytics.total_messages >= 1
  /\ analytics = result.pre.analytics

\* the Example Store is empty
StoreEmpty == load_training_data(trainingFile) = <<>>

\* C7: while the Example Store is empty, every request that runs the pipeline
\* ends normally with a reply of the fallback set, marked is_fallback, without
\* a language-model call (a reply served from the cache is such a reply too).
C7_FallbackOnEmptyCorpus ==
  result.op = "get_reply" /\ result.type \notin {"tool", "permission"} /\ StoreEmpty =>
     /\ result.status = "ok"
     /\ result.reply \in {FALLBACK_RESPONSES[i] : i \in 1..Len(FALLBACK_RESPONSES)}
     /\ result.llm_calls = 0
     /\ ~result.from_cache => result.is_fallback

\* C7 witness: a pipeline request answered on an empty Example Store
C7_Witness ==
  /\ result.op = "get_reply" /\ result.type = "llm" /\ ~result.from_cache
  /\ StoreEmpty /\ result.is_fallback

\* the stages of a request in their order
StageOrder ==
  <<"detect_language", "detect_mood", "get_context", "search", "generate",
    "side_effects">>

IsPrefix(s, t) == Len(s) <= Len(t) /\ s = SubSeq(t, 1, Len(s))

\* C8: a request in flight has run a prefix of the stage order and stands at
\* the next stage; a request that returned a pipeline reply has run every
\* stage once, in order; a request that failed stopped at the stage that
\* failed.
C8_StageOrder ==
  /\ req.pc # "idle" =>
        /\ IsPrefix(req.trace, StageOrder)
        /\ Len(req.trace) < Len(StageOrder)
        /\ req.pc = StageOrder[Len(req.trace) + 1]
  /\ result.op = "get_reply" /\ result.type = "llm" /\ ~result.from_cache =>
        result.trace = StageOrder
  /\ result.op = "get_reply" /\ result.status = "raised" =>
        /\ IsPrefix(result.trace, StageOrder)
        /\ result.trace # <<>>
        /\ result.trace[Len(result.trace)] \in {"search", "generate"}

\* C8 witness: a request has gone through all stages
C8_Witness ==
  result.op = "get_reply" /\ result.type = "llm" /\ ~result.from_cache
    /\ Len(result.trace) = 6

\* C9: a request calls the similarity search at most once and the language
\* model at most once, and not at all when the search gave no candidate.
C9_AtMostOneCall ==
  /\ req.search_calls <= 1 /\ req.llm_calls <= 1
  /\ result.search_calls <= 1 /\ result.llm_calls <= 1
  /\ req.pc = "side_effects" /\ req.state.similar_examples = <<>> =>
        req.llm_calls = 0
  /\ req.pc = "side_effects" => req.search_calls = 1
  /\ result.op = "get_reply" /\ result.type = "llm" /\ ~result.from_cache
       /\ result.candidates = 0 => result.llm_calls = 0

\* C9 witness: one request of each branch has been seen to its end
C9_Witness ==
  /\ result.op = "get_reply" /\ result.type = "llm" /\ ~result.from_cache
  /\ result.candidates = 0 /\ result.search_calls = 1 /\ result.llm_calls = 0

\* the emoji the mood-emoji table is written for, with their moods
MoodEmojiTable ==
  { <<128522, "happy">>, <<128516, "happy">>, <<127881, "happy">>,
    <<128546, "sad">>, <<128148, "sad">>, <<128557, "sad">>, <<128542, "sad">>,
    <<128544, "angry">>, <<129324, "angry">>, <<128548, "angry">>,
    <<128640, "excited">>, <<127882, "excited">>, <<11088, "excited">>,
    <<128564, "tired">>, <<128164, "tired">>, <<129393, "tired">> }

\* positions of the text that hold an emoji of the table
TableEmojiAt(text) ==
  {i \in 1..Len(text) : \E e \in MoodEmojiTable : e[1] = text[i]}

\* C10: for a text holding an emoji of the mood-emoji table, detect returns
\* the mood of the first such emoji with confidence 0.9 and intensity 1.0,
\* whatever keywords the text holds.
C10_EmojiPrecedence ==
  \A r \in {mdResult[i] : i \in 1..Len(mdResult)} :
     LET at == TableEmojiAt(mdText)
     IN  at # {} =>
           LET first == CHOOSE i \in at : \A k \in at : i <= k
               mapped == CHOOSE e \in MoodEmojiTable : e[1] = mdText[first]
           IN  r = [mood |-> mapped[2], confidence |-> 90, intensity |-> 30]

\* the emoji rule of detect fires on the text
EmojiRuleFires(text) ==
  \E i \in 1..Len(text) : InEmojiPattern(text[i]) /\ EmojiMapHas(text[i])

\* number of keywords of mood category m that occur in the text, letter case
\* ignored
KeywordHits(text, m) ==
  Cardinality({j \in 1..Len(MOODS[m].keywords) :
                  Contains(Lower(text), Lower(MOODS[m].keywords[j]))})

\* the highest keyword score of the text over the mood categories
WinningScore(text) ==
  LET scores == {KeywordHits(text, m) : m \in 1..Len(MOODS)}
  IN  CHOOSE s \in scores : \A t \in scores : t <= s

\* the results detect has returned (none or one)
Returned == {mdResult[i] : i \in 1..Len(mdResult)}

\* C11: for a text that holds no emoji of the mood-emoji table and no keyword
\* of any mood category, detect returns neutral with confidence 0.5 and
\* intensity 0.3.
C11_NeutralDefault ==
  \A r \in Returned :
     TableEmojiAt(mdText) = {} /\ WinningScore(mdText) = 0 =>
        r = [mood |-> "neutral", confidence |-> 50, intensity |-> 9]

\* C11 witness: detect has returned for a text without keywords that holds a
\* character of the emoji pattern which is no entry of the table
C11_Witness ==
  /\ mdResult # <<>>
  /\ TableEmojiAt(mdText) = {} /\ WinningScore(mdText) = 0
  /\ \E i \in 1..Len(mdText) : InEmojiPattern(mdText[i])

\* C12: when the emoji rule does not fire and some keyword occurs, detect
\* returns the mood category with the highest keyword score; among
\* categories with the same highest score, the one declared first.
C12_KeywordSelection ==
  \A r \in Returned :
     ~EmojiRuleFires(mdText) /\ WinningScore(mdText) >= 1 =>
        LET s == WinningScore(mdText)
            winners == {m \in 1..Len(MOODS) : KeywordHits(mdText, m) = s}
            first == CHOOSE m \in winners : \A k \in winners : m <= k
        IN  /\ r.mood = MOODS[first].mood
            /\ \A m \in 1..Len(MOODS) :
                  MOODS[m].mood = r.mood => KeywordHits(mdText, m) = s

\* C12 witness: detect has returned for a text in which two categories share
\* the highest score and an upper-case keyword is counted
C12_Witness ==
  /\ mdResult # <<>>
  /\ ~EmojiRuleFires(mdText)
  /\ WinningScore(mdText) >= 1
  /\ Cardinality({m \in 1..Len(MOODS) :
                    KeywordHits(mdText, m) = WinningScore(mdText)}) >= 2
  /\ \E i \in 1..Len(mdText) : mdText[i] = 76

\* C13: for a winning keyword score s >= 1, 100*confidence = min(95, 50+15*s)
\* and 3*intensity = min(3, s); for every text the confidence lies in
\* [0.5, 0.95] and the intensity in (0, 1]; and neither decreases when the
\* text is extended (which never lowers the winning score).
C13_ScoreArithmetic ==
  \A r \in Returned :
     LET s == WinningScore(mdText)
         Min(a, b) == IF a < b THEN a ELSE b
     IN  /\ ~EmojiRuleFires(mdText) /\ s >= 1 =>
               /\ r.confidence = Min(95, 50 + 15 * s)
               /\ r.intensity = 10 * Min(3, s)
         /\ r.confidence >= 50 /\ r.confidence <= 95
         /\ r.intensity > 0 /\ r.intensity <= 30
         /\ \A k \in 0..Len(mdText) :
               LET p == SubSeq(mdText, 1, k)
               IN  /\ WinningScore(p) <= s
                   /\ detect(p).confidence <= r.confidence
                   /\ detect(p).intensity <= r.intensity

\* C13 witness: detect has returned for a text whose winning score is above
\* both caps
C13_Witness ==
  /\ mdResult # <<>>
  /\ WinningScore(mdText) >= 4
  /\ mdResult[1].confidence = 95 /\ mdResult[1].intensity = 30

\* some character of the text lies in the range lo..hi
HasCharIn(text, lo, hi) == \E i \in 1..Len(text) : text[i] >= lo /\ text[i] <= hi

\* the code of the first script, in the order hi, te, ta, ml, of which the
\* text holds a character; "en" when it holds none
FirstScript(text) ==
  IF HasCharIn(text, 2304, 2431) THEN "hi"        \* U+0900-U+097F
  ELSE IF HasCharIn(text, 3072, 3199) THEN "te"   \* U+0C00-U+0C7F
  ELSE IF HasCharIn(text, 2944, 3071) THEN "ta"   \* U+0B80-U+0BFF
  ELSE IF HasCharIn(text, 3328, 3455) THEN "ml"   \* U+0D00-U+0D7F
  ELSE "en"

\* the text read backwards
Reverse(text) == [i \in 1..Len(text) |-> text[Len(text) + 1 - i]]

\* C14: LanguageDetector.detect returns the code of the first script range,
\* in the order hi, te, ta, ml, that holds a character of the text, wherever
\* in the text the characters stand; a text with Devanagari characters only
\* gives "hi"; a text with no character of any range gives "en".
C14_ScriptPriority ==
  \A code \in {ldResult[i] : i \in 1..Len(ldResult)} :
     /\ code = FirstScript(ldText)
     /\ detect_language(Reverse(ldText)) = code
     /\ (ldText # <<>> /\ \A i \in 1..Len(ldText) :
            ldText[i] >= 2304 /\ ldText[i] <= 2431) => code = "hi"
     /\ (\A i \in 1..Len(ldText) :
            \A p \in 1..Len(language_patterns) :
               ldText[i] < language_patterns[p].lo
                 \/ ldText[i] > language_patterns[p].hi) => code = "en"

\* C14 witness: detect has returned "te" for a text in which a Tamil
\* character stands before the first Telugu character
C14_Witness ==
  /\ ldResult = <<"te">>
  /\ \E i, j \in 1..Len(ldText) :
        /\ i < j
        /\ ldText[i] >= 2944 /\ ldText[i] <= 3071
        /\ ldText[j] >= 3072 /\ ldText[j] <= 3199
        /\ \A k \in 1..(j - 1) : ldText[k] < 3072 \/ ldText[k] > 3199

\* d.get(key, 0)
CountOf(d, key) == IF key \in DOMAIN d THEN d[key] ELSE 0

\* sum(d.values())
RECURSIVE SumOf(_)
SumOf(d) ==
  IF DOMAIN d = {} THEN 0
  ELSE LET k == CHOOSE x \in DOMAIN d : TRUE
       IN  d[k] + SumOf([x \in DOMAIN d \ {k} |-> d[x]])

\* dict new is dict old with the counter of key one higher, nothing else
\* changed
IncrementedAt(old, new, key) ==
  /\ DOMAIN new = DOMAIN old \cup {key}
  /\ \A k \in DOMAIN new :
        new[k] = CountOf(old, k) + (IF k = key THEN 1 ELSE 0)

\* C15: starting from empty analytics, after every track_message call the
\* total equals the number of calls made, unique_users the number of distinct
\* user ids passed, and the per-user counters sum to the total; the call
\* raises the total, the counter of the user, the counter of the day and,
\* for a mood and a language that were passed (not None, not empty), the
\* counter of the mood and of the language by exactly one and changes no
\* other counter.
C15_StatsAggregation ==
  [][result'.op = "track_message" /\ hist'.calls = hist.calls + 1 =>
       LET mood == result'.mood
           language == result'.language
       IN  /\ get_stats(analytics').total_messages = hist'.calls
           /\ get_stats(analytics').unique_users = Cardinality(hist'.tracked_users)
           /\ DOMAIN analytics'.messages_by_user = hist'.tracked_users
           /\ SumOf(analytics'.messages_by_user) = hist'.calls
           /\ SumOf(analytics'.daily_stats) = hist'.calls
           /\ analytics'.total_messages = analytics.total_messages + 1
           /\ IncrementedAt(analytics.messages_by_user,
                            analytics'.messages_by_user, result'.user_id)
           /\ IncrementedAt(analytics.daily_stats, analytics'.daily_stats,
                            DayOf(clock))
           /\ IF mood \in {"None", ""}
              THEN analytics'.messages_by_mood = analytics.messages_by_mood
              ELSE IncrementedAt(analytics.messages_by_mood,
                                 analytics'.messages_by_mood, mood)
           /\ IF language \in {"None", ""}
              THEN analytics'.messages_by_language = analytics.messages_by_language
              ELSE IncrementedAt(analytics.messages_by_language,
                                 analytics'.messages_by_language, language)
           /\ analyticsFile'.exists /\ analyticsFile'.data = analytics'
    ]_vars

\* C15 witness: calls for two users, two moods and two languages on two days
\* have been counted, one user more than once
C15_Witness ==
  /\ result.op = "track_message"
  /\ get_stats(analytics).unique_users = 2
  /\ get_stats(analytics).total_messages >= 4
  /\ Cardinality(DOMAIN analytics.messages_by_mood) = 2
  /\ Cardinality(DOMAIN analytics.messages_by_language) = 2
  /\ Cardinality(DOMAIN analytics.daily_stats) = 2

\* C16: a search while no index exists returns the empty list without an
\* error and leaves the index absent (in memory and on disk); the request
\* goes on to Generate, which takes the fallback branch without calling the
\* language model.
C16_SearchWithoutIndex ==
  [][/\ req.pc = "search" /\ ~vector_store.exists =>
          /\ req'.pc = "generate"
          /\ req'.state.similar_docs = <<>>
          /\ req'.state.similar_examples = <<>>
          /\ req'.search_calls = 1
          /\ result' = result
          /\ vector_store' = NoVectorStore /\ vectorDisk' = vectorDisk
     /\ req.pc = "generate" /\ ~vector_store.exists =>
          /\ req.state.similar_examples = <<>>
          /\ req'.pc = "side_effects"
          /\ req'.state.is_fallback
          /\ req'.state.reply \in
                {FALLBACK_RESPONSES[i] : i \in 1..Len(FALLBACK_RESPONSES)}
          /\ req'.llm_calls = 0
          /\ ~vector_store'.exists
    ]_vars

\* C16 witness: a request that searched without an index has been answered
C16_Witness ==
  /\ ~vector_store.exists /\ ~vectorDisk.exists
  /\ result.op = "get_reply" /\ result.status = "ok" /\ ~result.from_cache
  /\ result.search_calls = 1 /\ result.candidates = 0

\* the examples of the persisted Example Store
StoredExamples == load_training_data(trainingFile)

\* C17: add_example(e) while no index exists leaves the index, with the
\* input, reply, language and stored position of its entry, and the persisted
\* copy of the index as create_vector_store([e]) leaves them.
C17_AddOnAbsentIsRebuild ==
  [][hist'.train_calls = hist.train_calls + 1 /\ ~vector_store.exists =>
       LET e == examples'[Len(examples')]
       IN  /\ vector_store' = create_vector_store(<<e>>)
           /\ vectorDisk' = create_vector_store(<<e>>)
           /\ vector_store'.docs =
                <<[page_content |-> e.input, reply |-> e.reply,
                   language |-> e.language, index |-> 0]>>
    ]_vars

\* C17 witness: a train call has added the first entry to an absent index
C17_Witness ==
  /\ result.op = "train" /\ result.status = "ok"
  /\ hist.train_calls = 1 /\ hist.initial_count = 0 /\ hist.restarts = 0
  /\ IndexSize = 1 /\ vectorDisk.exists

\* C18: a process that started with a non-empty Example Store and found no
\* persisted index has, from the end of construction up to its first train
\* or correct call (so before and at every lookup made until then), an index
\* rebuilt from the full store: one entry per stored example, in the order
\* of the store, also saved to disk.
C18_StartupRebuild ==
  hist.started_without_index /\ hist.since_start = 0 /\ StoredExamples # <<>> =>
     /\ vector_store = create_vector_store(StoredExamples)
     /\ IndexSize = Len(StoredExamples)
     /\ vectorDisk = vector_store

\* C18 witness: a lookup runs in a process that started without a persisted
\* index on a store of two examples
C18_Witness ==
  /\ hist.started_without_index /\ hist.since_start = 0
  /\ Len(StoredExamples) = 2
  /\ req.pc = "generate" /\ Len(req.state.similar_docs) = 2

\* C19: after a process restart that follows any train and correct calls,
\* and until the next train or correct call (so before the first lookup),
\* the index holds as many examples as the Example Store.
C19_AgreeAcrossRestart ==
  hist.restarts >= 1 /\ hist.since_start = 0 =>
     IndexSize = Len(StoredExamples)

\* positions of the facts handed to add_fact for user u, among all calls
FactCallsOf(u) == {i \in 1..Len(hist.fact_log) : hist.fact_log[i].user_id = u}

\* position among all calls of the j-th fact added for user u
NthFactCallOf(u, j) ==
  CHOOSE i \in FactCallsOf(u) : Cardinality({k \in FactCallsOf(u) : k <= i}) = j

\* C20: the fact log holds every fact ever added, in the order of the calls;
\* get_facts(U) returns the most recent min(10, n_U) facts added for U, in
\* the order they were added, and no fact added for another user.
C20_LongTermMemory ==
  /\ Len(facts) = Len(hist.fact_log)
  /\ \A i \in 1..Len(facts) :
        /\ facts[i].user_id = hist.fact_log[i].user_id
        /\ facts[i].fact = hist.fact_log[i].fact
  /\ \A u \in Users :
        LET n == Cardinality(FactCallsOf(u))
            got == get_facts(facts, u)
            m == IF n < 10 THEN n ELSE 10
        IN  /\ Len(got) = m
            /\ \A j \in 1..m :
                  got[j] = hist.fact_log[NthFactCallOf(u, n - m + j)].fact
            /\ \A j \in 1..m :
                  \A i \in 1..Len(hist.fact_log) :
                     hist.fact_log[i].fact = got[j] =>
                        hist.fact_log[i].user_id = u

\* C20 witness: a user with eleven facts, interleaved with facts of another
\* user, of which get_facts returns ten
C20_Witness ==
  /\ Cardinality(FactCallsOf("u1")) = 11
  /\ Cardinality(FactCallsOf("u2")) = 1
  /\ hist.fact_log[2].user_id = "u2"
  /\ Len(get_facts(facts, "u1")) = 10

\* C21: clear_conversation(U) leaves U's sequence empty (get_context(U) is
\* the empty list and get_formatted_context(U) the empty string) and every
\* other user's sequence as it was; add_message(U, ...) changes U's sequence
\* and no other user's.
C21_FrameOfMemoryCalls ==
  [][\A u \in Users :
       LET others_unchanged ==
             \A v \in Users \ {u} :
                /\ get_context(conversations', v) = get_context(conversations, v)
                /\ (v \in DOMAIN conversations') = (v \in DOMAIN conversations)
       IN  /\ MemClearConversation(u) =>
                /\ get_context(conversations', u) = <<>>
                /\ get_formatted_context(conversations', u) = <<>>
                /\ others_unchanged
           /\ (\E r \in MemRoles, c \in MemContents : MemAddMessage(u, r, c)) =>
                /\ get_context(conversations', u) # <<>>
                /\ others_unchanged
    ]_vars

\* C21 witness: u1 was cleared after both users had written, and u2 still has
\* its messages
C21_Witness ==
  /\ "u1" \in DOMAIN conversations
  /\ conversations["u1"] = <<>>
  /\ hist.appended["u1"] = <<>>
  /\ Len(get_context(conversations, "u2")) >= 2

\* C22: after every completed add_message, clear_conversation, add_fact and
\* track_message the persisted document of the store equals its in-memory
\* state: loading the three documents, as a restarted process does, gives
\* exactly the conversations, the facts and the analytics data held in memory.
C22_SynchronousPersistence ==
  /\ load_conversations(conversationsFile, max_turns) = conversations
  /\ load_facts(memoryFile) = facts
  /\ analytics_load(analyticsFile) = analytics
  /\ conversationsFile.exists => conversationsFile.data = conversations
  /\ memoryFile.exists => memoryFile.data = facts
  /\ analyticsFile.exists => analyticsFile.data = analytics

\* C22 witness: a process that was restarted after calls on all three stores
\* and holds what they left
C22_Witness ==
  /\ hist.restarts >= 1
  /\ get_context(conversations, "u1") # <<>>
  /\ facts # <<>>
  /\ analytics.total_messages >= 1
  /\ Len(hist.appended["u1"]) > max_turns

\* C23: set_personality(key) with a key outside the catalog returns false and
\* leaves the active personality, and every store, as they were; with a key of
\* the catalog it returns true and that profile is the active one, the one
\* whose system prompt every later request, of whichever user, is given.
C23_UnknownPersonalityRejected ==
  [][/\ \A key \in PersonalityKeys :
          SetPersonality(key) =>
             IF key \in PERSONALITIES
             THEN /\ result'.status = "ok"
                  /\ personality' = key
             ELSE /\ result'.status = "false"
                  /\ UNCHANGED <<personalityVars, storeVars, memoryVars,
                                 factVars, analyticsVars, pending_corrections,
                                 cache, clock, req>>
     /\ req'.pc \in {"search", "generate", "side_effects"} =>
          /\ req'.state.system_prompt = personality'
          /\ personality' \in PERSONALITIES
    ]_vars

\* C23 witness: a request of u2 runs with the profile that was set, after an
\* unknown key was rejected
C23_Witness ==
  /\ req.pc = "search"
  /\ req.state.user_id = "u2"
  /\ req.state.system_prompt = "friendly"
  /\ personality = "friendly"
  /\ result.op = "set_personality"
  /\ result.status = "false"

\* this step is a call correct(query, original, corrected) of some user
\* with at least one empty field
CorrectWithEmptyField ==
  \E u \in CorrectUsers, a \in CorrectArgs :
     /\ <<>> \in {a[1], a[2], a[3]}
     /\ Correct(u, a[1], a[2], a[3])

\* C24: a call correct(query, original, corrected, user) with an empty query,
\* original reply or corrected reply ends with an error result and leaves the
\* correction logs, the Example Store and the Similarity Index as they were.
C24_EmptyCorrectionRejected ==
  [][CorrectWithEmptyField =>
       /\ result'.status # "ok"
       /\ pending_corrections' = pending_corrections
       /\ analytics'.corrections = analytics.corrections
       /\ UNCHANGED <<trainingFile, examples, vector_store, vectorDisk>>
    ]_vars

\* C25: starting from empty analytics, after n correct calls (n <= 100) the
\* corrections log of Analytics holds one record per call:
\* get_stats().recent_corrections_count = n.
C25_CorrectionsInAnalytics ==
  (req.pc = "idle" /\ hist.correct_calls <= 100) =>
     /\ get_stats(analytics).recent_corrections_count = hist.correct_calls
     /\ Len(analytics.corrections) = hist.correct_calls

\* the log `field` of an analytics document (empty when there is none)
PersistedLog(file, field) == IF file.exists THEN file.data[field] ELSE <<>>

\* the records of a log are in recording order
InRecordingOrder(log) ==
  \A i, j \in 1..Len(log) : i < j => log[i].timestamp < log[j].timestamp

\* a call appended one record to the in-memory log `field`: the persisted log
\* is the previous persisted log with that record at its end, cut to the last
\* hundred
RecordedLast(field) ==
  Len(analytics'[field]) = Len(analytics[field]) + 1 =>
     LET rec == analytics'[field][Len(analytics'[field])]
     IN  /\ rec.timestamp = clock
         /\ PersistedLog(analyticsFile', field) =
              LastN(Append(PersistedLog(analyticsFile, field), rec), 100)

\* C26: after any sequence of track_correction and track_feedback calls the
\* persisted corrections list and the persisted feedback list hold at most
\* 100 records each, the most recently recorded ones in recording order; after
\* a reload the in-memory logs hold at most 100 records each.
C26_LogsBoundedOnPersistence ==
  [][/\ \A field \in {"corrections", "feedback"} :
          /\ Len(PersistedLog(analyticsFile', field)) <= 100
          /\ InRecordingOrder(PersistedLog(analyticsFile', field))
          /\ RecordedLast(field)
          /\ hist'.restarts = hist.restarts + 1 =>
               /\ Len(analytics'[field]) <= 100
               /\ analytics'[field] = PersistedLog(analyticsFile, field)
    ]_vars

\* C26 witness: more corrections were recorded in this process than the
\* document keeps, feedback was recorded too, and the document holds the last
\* hundred corrections
C26_Witness ==
  /\ Len(analytics.corrections) >= 102
  /\ analytics.feedback # <<>>
  /\ Len(PersistedLog(analyticsFile, "corrections")) = 100
  /\ PersistedLog(analyticsFile, "corrections")[100].timestamp = clock - 1

\* the requests that were answered with a reply
Answered == {u \in DOMAIN inbox : inbox[u].pc = "done"}

WaitsInExternalCall ==
  \/ req.pc = "search" /\ vector_store.exists
  \/ req.pc = "generate" /\ ~UseFallback(req.state.similar_examples)

\* C28: while one request waits in its similarity-search or generation call,
\* any other request that was received can still run: the server can take
\* the next step of its handler.
C28_HungCallBlocksOnlyItself ==
  \A v \in DOMAIN inbox :
     (/\ WaitsInExternalCall
      /\ req.state.user_id # v
      /\ inbox[v].pc \in {"received", "parsed"})
     => ENABLED (ParseBody(v) \/ Dispatch(v))

\* `top` lists at most five items of the dict d, in descending order of
\* count, and no item it leaves out has a larger count than one it lists
TopOfDict(top, d) ==
  LET listed == {top[i][1] : i \in 1..Len(top)}
  IN  /\ Len(top) <= 5
      /\ Len(top) = IF Cardinality(DOMAIN d) < 5 THEN Cardinality(DOMAIN d) ELSE 5
      /\ \A i \in 1..Len(top) : top[i][1] \in DOMAIN d /\ top[i][2] = d[top[i][1]]
      /\ \A i, j \in 1..Len(top) : i < j =>
            top[i][2] >= top[j][2] /\ top[i][1] # top[j][1]
      /\ \A k \in DOMAIN d \ listed : \A i \in 1..Len(top) : d[k] <= top[i][2]

\* C29: get_stats reports at most five moods and at most five languages,
\* each list in descending order of count, and every mood or language it
\* omits has a count no greater than every one it reports.
C29_TopFive ==
  result.op = "get_stats" =>
     /\ TopOfDict(result.stats.top_moods, analytics.messages_by_mood)
     /\ TopOfDict(result.stats.top_languages, analytics.messages_by_language)

\* C29 witness: six moods were counted, so one is omitted; it ties with the
\* last one reported, and the first one reported has a larger count
C29_Witness ==
  /\ result.op = "get_stats"
  /\ Cardinality(DOMAIN analytics.messages_by_mood) = 6
  /\ LET top == result.stats.top_moods
         d == analytics.messages_by_mood
     IN  /\ top[1][2] > top[5][2]
         /\ \E k \in DOMAIN d :
               /\ \A i \in 1..5 : top[i][1] # k
               /\ d[k] = top[5][2]
  /\ Len(result.stats.top_languages) = 4

\* C30: the candidates handed to Generate are at most MAX_RESULTS and never
\* more than the index holds; they are as many as the documents the search
\* returned, in the same order, and each carries the input, the reply and the
\* language of an entry of the index.
C30_RetrieveBound ==
  req.pc \in {"generate", "side_effects"} =>
     LET docs == req.state.similar_docs
         cands == req.state.similar_examples
     IN  /\ Len(cands) <= MAX_RESULTS
         /\ Len(cands) <= IndexSize
         /\ Len(cands) = Len(docs)
         /\ \A i \in 1..Len(cands) :
               /\ cands[i].input = docs[i].page_content
               /\ cands[i].reply = docs[i].reply
               /\ cands[i].language = docs[i].language
               /\ \E j \in 1..IndexSize : vector_store.docs[j] = docs[i]
         /\ req.search_calls = 1

\* C30 witness: the index holds four examples and three candidates reach
\* Generate, the first of them an example added by train
C30_Witness ==
  /\ req.pc = "generate"
  /\ IndexSize = 4
  /\ Len(req.state.similar_examples) = MAX_RESULTS
  /\ req.state.similar_examples[1].reply = TextBar
  /\ req.state.similar_examples[1].language # req.state.similar_examples[2].language

\* C31: between calls, the position stored with each entry of the Similarity
\* Index is the position of that entry in insertion order (counted from 0, as
\* enumerate counts), so the stored positions of distinct entries are distinct.
C31_StoredPositions ==
  req.pc = "idle" =>
     /\ \A i \in 1..IndexSize : vector_store.docs[i].index = i - 1
     /\ \A i, j \in 1..IndexSize :
           i # j => vector_store.docs[i].index # vector_store.docs[j].index

\* C32: a call of add_message, add_fact or track_message whose write to disk
\* fails leaves its in-memory mutation applied for the rest of the process:
\* at every later moment get_context, the facts and the counters show every
\* call made, failed writes included, whatever the documents hold.
C32_NoRollbackOnWriteFailure ==
  /\ \A u \in Users :
        get_context(conversations, u) = LastN(hist.appended[u], max_turns)
  /\ [i \in 1..Len(facts) |-> [user_id |-> facts[i].user_id, fact |-> facts[i].fact]]
       = hist.fact_log
  /\ analytics.total_messages
       = hist.calls - Len(hist.fact_log)
           - Len(hist.appended["u1"]) - Len(hist.appended["u2"])

\* C32 witness: a write of each store failed, the last of them an add_message,
\* and memory holds what the three calls did while no document was written
C32_Witness ==
  /\ result.op = "add_message" /\ result.status = "raised"
  /\ get_context(conversations, "u1") # <<>>
  /\ facts # <<>>
  /\ analytics.total_messages = 1
  /\ ~conversationsFile.exists /\ ~memoryFile.exists /\ ~analyticsFile.exists

\* the last call was a get_reply that the pipeline answered
PipelineReplyReturned ==
  /\ req.pc = "idle"
  /\ result.op = "get_reply"
  /\ result.status = "ok"
  /\ result.type = "llm"
  /\ ~result.from_cache

C34_CorpusRoundTrip ==
  (req.pc = "idle" /\ result.op \in {"train", "correct"}) =>
     load_training_data(trainingFile) = examples

\* C35: the reply cache holds at most 101 entries, one for each <<user id,
\* lower-cased trimmed message>> the pipeline answered since the cache was
\* last emptied (by a clear_conversation of any user, or by the reply that
\* found more than a hundred entries) and none else, whatever train, correct
\* and set_personality calls were made since; a request is handed to the
\* pipeline only if its pair has no entry, and a reply from the cache is the
\* reply remembered for its pair
C35_CacheBoundedAndKeyed ==
  /\ Cardinality(DOMAIN cache) <= 101
  /\ Cardinality(DOMAIN cache) = Cardinality(DOMAIN hist.cached)
  /\ \A p \in DOMAIN hist.cached :
        /\ CacheKey(p[1], p[2]) \in DOMAIN cache
        /\ cache[CacheKey(p[1], p[2])] = hist.cached[p]
  /\ req.pc # "idle" =>
        <<req.state.user_id, Lower(req.state.query)>> \notin DOMAIN hist.cached
  /\ (req.pc = "idle" /\ result.op = "get_reply" /\ result.from_cache) =>
        /\ <<result.user_id, Lower(result.query)>> \in DOMAIN hist.cached
        /\ result.reply = hist.cached[<<result.user_id, Lower(result.query)>>]
  /\ (req.pc = "idle" /\ result.op = "clear_conversation") => cache = <<>>

\* the 102nd reply of the pipeline found 101 entries and left only its own
C35_Witness ==
  /\ req.pc = "idle"
  /\ hist.calls = 102
  /\ analytics.total_messages = 102
  /\ Cardinality(DOMAIN cache) = 1
  /\ CacheKey("u1", NumberedMessage(101)) \in DOMAIN cache

\* C36: in every reachable state the current personality of the pipeline is
\* a key of the catalog ("default" before any change), so that
\* get_personality finds its entry, and the selector of the bot holds the
\* same key as the selector of the pipeline
C36_ActivePersonalityInCatalog ==
  /\ personality \in PERSONALITIES
  /\ botPersonality = personality
  /\ hist.calls = 0 => personality = "default"
  /\ req.pc \in {"search", "generate", "side_effects"} =>
        req.state.system_prompt \in PERSONALITIES

\* an unknown key was refused after a known key had been set: both selectors
\* still hold the known key
C36_Witness ==
  /\ req.pc = "idle"
  /\ result.op = "set_personality"
  /\ result.status = "false"
  /\ hist.calls >= 2
  /\ personality = "friendly"
  /\ botPersonality = "friendly"

\* the searches stored for, and the full searches executed for, a user
PromptsOf(h, u) == {i \in 1..Len(h.prompts) : h.prompts[i].user_id = u}

SearchesOf(h, u) == {i \in 1..Len(h.searches) : h.searches[i].user_id = u}

\* a full search is executed in this step
SearchExecuted == hist'.searches # hist.searches

\* a call returns the permission prompt in this step
PromptReturned ==
  /\ hist'.calls = hist.calls + 1
  /\ req'.pc = "idle"
  /\ result'.type = "permission"

\* C37: in the chat endpoint a full search is executed only for a user who
\* has a pending search, stored by an earlier permission prompt to that user,
\* and whose message is a confirmation word; the search removes the entry of
\* that user and no other, and an entry disappears in no other way, so that
\* a user never had more searches than prompts; a call that returns the
\* permission prompt starts no pipeline and leaves conversations, analytics
\* and their documents as they were
C37_SearchNeedsPermission ==
  [][/\ SearchExecuted =>
          LET s == hist'.searches[Len(hist'.searches)]
          IN  /\ hist'.searches = Append(hist.searches, s)
              /\ s.user_id \in DOMAIN pending_searches
              /\ pending_searches[s.user_id] = s.query
              /\ \E i \in PromptsOf(hist, s.user_id) :
                    hist.prompts[i].query = s.query
              /\ result'.user_id = s.user_id
              /\ Lower(result'.query) \in confirmation_words
              /\ s.user_id \notin DOMAIN pending_searches'
              /\ \A v \in DOMAIN pending_searches \ {s.user_id} :
                    /\ v \in DOMAIN pending_searches'
                    /\ pending_searches'[v] = pending_searches[v]
     /\ ~SearchExecuted =>
          \A v \in DOMAIN pending_searches : v \in DOMAIN pending_searches'
     /\ \A u \in Users :
          Cardinality(SearchesOf(hist', u))
             + (IF u \in DOMAIN pending_searches' THEN 1 ELSE 0)
             <= Cardinality(PromptsOf(hist', u))
     /\ PromptReturned =>
          /\ req.pc = "idle"
          /\ UNCHANGED <<memoryVars, factVars, analyticsVars, cache>>
    ]_vars

\* the second user confirmed while only the first had a pending search, and
\* then the first user's confirmation executed it
C37_Witness ==
  /\ result.op = "full_search"
  /\ result.user_id = "u1"
  /\ hist.calls = 3
  /\ Len(hist.searches) = 1
  /\ hist.searches[1].user_id = "u1"
  /\ Len(hist.prompts) = 1
  /\ "u2" \in DOMAIN conversations
  /\ pending_searches = <<>>

\* the calls of identifier admitted less than window seconds before the
\* instant at, and not after it
AdmittedWithin(h, identifier, at, window) ==
  {k \in 1..Len(LimitsOf(h.admitted, identifier)) :
      /\ LimitsOf(h.admitted, identifier)[k] <= at
      /\ at - LimitsOf(h.admitted, identifier)[k] < window}

\* check_rate_limit returns in this step
RateLimitChecked ==
  /\ hist'.calls = hist.calls + 1
  /\ result'.op \in {"check_rate_limit", "rate_limit"}

\* C38: for every identifier and every instant, at most RATE_LIMIT_REQUESTS
\* calls were admitted within the RATE_LIMIT_WINDOW seconds before it; a call
\* is admitted exactly when fewer than that many calls of the same
\* identifier were admitted within the window before it, whatever calls were
\* refused meanwhile and whatever other identifiers did; a refused call adds
\* no instant to the record; a call changes the record of no other identifier
C38_SlidingWindow ==
  [][/\ \A i \in Users, at \in 0..clock' :
          Cardinality(AdmittedWithin(hist', i, at,
                                     rate_limit_config.window_seconds))
             <= rate_limit_config.requests
     /\ RateLimitChecked =>
          LET i == result'.user_id
              before == LimitsOf(rate_limits, i)
              after == LimitsOf(rate_limits', i)
              admit == result'.status \in {"true", "ok"}
          IN  /\ admit <=>
                   Cardinality(AdmittedWithin(hist, i, clock,
                                              rate_limit_config.window_seconds))
                      < rate_limit_config.requests
              /\ admit => LimitsOf(hist'.admitted, i)
                             = Append(LimitsOf(hist.admitted, i), clock)
              /\ ~admit =>
                   /\ hist'.admitted = hist.admitted
                   /\ Len(after) <= Len(before)
                   /\ \A k \in 1..Len(after) :
                         \E n \in 1..Len(before) : after[k] = before[n]
              /\ \A j \in DOMAIN rate_limits \ {i} :
                    /\ j \in DOMAIN rate_limits'
                    /\ rate_limits'[j] = rate_limits[j]
              /\ LimitsOf(hist'.admitted, IF i = "u1" THEN "u2" ELSE "u1")
                    = LimitsOf(hist.admitted, IF i = "u1" THEN "u2" ELSE "u1")
    ]_vars

\* with a limit of one call in two seconds, the first identifier was
\* admitted, refused within the window and admitted again after it, while
\* the second identifier was admitted in between
C38_Witness ==
  /\ rate_limit_config.requests = 1
  /\ result.op = "check_rate_limit"
  /\ result.status = "true"
  /\ result.user_id = "u1"
  /\ hist.calls = 4
  /\ Len(LimitsOf(hist.admitted, "u1")) = 2
  /\ Len(LimitsOf(hist.admitted, "u2")) = 1
  /\ LimitsOf(hist.admitted, "u1")[2] - LimitsOf(hist.admitted, "u1")[1] = 2

====
